---- MODULE Spec2Model ----
(***************************************************************************)
(* LinearService (src/src/services/LinearService.ts): team-name and        *)
(* status-name resolution with their caches, the paginated workflow-state  *)
(* fetch, filter composition, the issue query and the due-date sort.       *)
(* LinearProcessor (src/src/processors/LinearProcessor.ts): the options of  *)
(* a block with its due-date tokens, and the three fetch modes of process. *)
(* Every await on a remote call is one step boundary: the request is sent  *)
(* by the step that reaches the await and the code after the await runs in *)
(* the step that delivers the response.  Several calls may be in flight on *)
(* the one service instance (cooperative scheduling).                      *)
(***************************************************************************)
EXTENDS Integers, Sequences, FiniteSets, TLC

\* ---------------------------------------------------------------- bounds
NumCallers == 2
MaxCalls == 2
MaxClockSteps == 1
MaxPages == 2
NumInstances == 2
MaxIntegrations == 2

Procs == 1..NumCallers

\* The LinearService instances that exist side by side: main.ts constructs one
\* LinearProcessor, and with it one LinearService, for every code block.
Instances == 1..NumInstances

\* ------------------------------------------------------------- constants
CACHE_TTL == 5 * 60 * 1000

\* ------------------------------------------------ strings as char sequences
Lower(c) ==
  CASE c = "A" -> "a"
    [] c = "B" -> "b"
    [] c = "D" -> "d"
    [] c = "E" -> "e"
    [] c = "O" -> "o"
    [] c = "R" -> "r"
    [] c = "S" -> "s"
    [] c = "T" -> "t"
    [] c = "Y" -> "y"
    [] OTHER -> c

toLowerCase(s) == [i \in 1..Len(s) |-> Lower(s[i])]

IsLowerAlnum(c) == c \in {"a", "b", "1"}

normalizeStateNameKeepsCase(name) == SelectSeq(name, IsLowerAlnum)

\* name.toLowerCase().replace(/[^a-z0-9]/g, '')
normalizeStateName(name) == SelectSeq(toLowerCase(name), IsLowerAlnum)

\* ------------------------------------------------------------ remote data
\* The team listing served by client.teams().
RemoteTeams ==
  << [id |-> "T1", name |-> <<"A", "b">>],
     [id |-> "T2", name |-> <<"B", "a">>] >>

\* The listing after the two teams have exchanged their names.
RenamedTeams ==
  << [id |-> "T1", name |-> <<"B", "a">>],
     [id |-> "T2", name |-> <<"A", "b">>] >>

TeamListings == {RemoteTeams, RenamedTeams}

NoTeam == ""

\* The workflow states of the organisation, in the order the remote pages them.
RemotePageNodes ==
  << << [id |-> "S1", name |-> <<"A", " ", "b">>, team |-> "T2"],
        [id |-> "S2", name |-> <<"A", "-", "B">>, team |-> "T1"] >>,
     << [id |-> "S3", name |-> <<"a", "b">>, team |-> NoTeam],
        [id |-> "S4", name |-> <<"b", "1">>, team |-> NoTeam] >>,
     << [id |-> "S5", name |-> <<"B", "1">>, team |-> "T1"] >>,
     << [id |-> "S6", name |-> <<"1">>, team |-> NoTeam] >> >>

RemoteCursors == <<"c1", "c2", "c3", "c4">>

NoCursor == ""

\* The page the remote answers to a request carrying cursor `after`, when the
\* organisation's states fill n pages: no cursor selects the first page, the
\* endCursor of page i selects page i+1.
RemotePage(n, i) ==
  IF i \in 1..n
    THEN [nodes |-> RemotePageNodes[i], hasNextPage |-> i < n,
          endCursor |-> RemoteCursors[i]]
    ELSE [nodes |-> <<>>, hasNextPage |-> FALSE, endCursor |-> NoCursor]

ServePage(n, after) ==
  IF after = NoCursor
    THEN RemotePage(n, 1)
    ELSE LET i == CHOOSE j \in 1..Len(RemoteCursors) : RemoteCursors[j] = after
         IN RemotePage(n, i + 1)

\* Issues the remote may list; dueDate 0 stands for "no due date".
Issue(id, due, hasAssignee) == [id |-> id, dueDate |-> due, assignee |-> hasAssignee]

IssueListings ==
  { <<>>,
    << Issue("I1", 2, TRUE) >>,
    << Issue("I1", 0, FALSE), Issue("I2", 2, TRUE), Issue("I3", 0, FALSE),
       Issue("I4", 1, FALSE) >> }

\* ---------------------------------------------------------------- options
NoDate == -1
NoSorting == [field |-> "", direction |-> ""]
NoDateFilter == [before |-> NoDate, after |-> NoDate]

Opt(team, status, assignee, due, sorting, limit) ==
  [teamName |-> team, status |-> status, assigneeEmail |-> assignee,
   dueDateFilter |-> due, sorting |-> sorting, limit |-> limit,
   hideDescription |-> FALSE]

\* ------------------------------------------------------------ block source
\* A value of the parsed YAML of a block: a string, a value of another type
\* (a number), or nothing.
Str(chars) == [type |-> "string", chars |-> chars]
NotAString == [type |-> "number", chars |-> <<>>]
Absent == [type |-> "absent", chars |-> <<>>]

\* The parsed source of a block; isObject is false when parseYaml gives null.
EmptyBlock ==
  [isObject |-> TRUE, ids |-> <<>>, id |-> Absent, issueId |-> Absent,
   team |-> Absent, status |-> Absent, assignee |-> Absent,
   dueAfter |-> Absent, dueBefore |-> Absent, sorting |-> Absent,
   hideDescription |-> FALSE, limit |-> 0]

NullBlock == [EmptyBlock EXCEPT !.isObject = FALSE]

\* What a process call reads of its surroundings: settings.debugMode, the
\* instant `new Date()` gives (hours since 2023-12-31T00:00Z) and the offset of
\* local time from UTC in hours.
Env(debugMode, clock, tz) == [debugMode |-> debugMode, clock |-> clock, tz |-> tz]

NoEnv == Env(FALSE, 0, 0)

\* What parseDateValue gave for the dueAfter and the dueBefore token of a call;
\* "skipped" where it was not called.
DateRange(kind, start, end) == [kind |-> kind, start |-> start, end |-> end]

NoRanges ==
  [after |-> DateRange("skipped", NoDate, NoDate),
   before |-> DateRange("skipped", NoDate, NoDate)]

TeamNameInputs == { <<>>, <<"A", "b">>, <<"a", "B">>, <<"b", "A">>, <<"B", "b">> }
StatusInputs == { <<>>, <<"a", "-", "b">>, <<"1", "1">> }

\* The option values callers pass: every team/status combination, and the
\* remaining dimensions varied on an unfiltered query.
OptionValues ==
  { Opt(t, s, <<>>, NoDateFilter, NoSorting, 0) :
      t \in TeamNameInputs, s \in StatusInputs }
  \cup
  { Opt(<<>>, <<>>, <<"a", "1">>, [before |-> 7, after |-> NoDate],
        [field |-> "date", direction |-> "asc"], 2),
    Opt(<<"A", "b">>, <<"a", "-", "b">>, <<>>, [before |-> 0, after |-> 3],
        [field |-> "date", direction |-> "desc"], 0) }

\* The date tokens blocks carry.
Today == <<"T", "o", "d", "a", "y">>
Tomorrow == <<" ", "t", "o", "m", "o", "r", "r", "o", "w", " ">>
Yesterday == <<"Y", "E", "S", "T", "E", "R", "D", "A", "Y">>
IsoDay == <<"2", "0", "2", "4", "-", "0", "1", "-", "1", "0">>
IsoDayAndHour ==
  <<"2", "0", "2", "4", "-", "0", "1", "-", "1", "0", "T", "1", "5", ":", "0", "0">>
IsoNoSuchDay == <<"2", "0", "2", "4", "-", "1", "3", "-", "0", "1">>
NotADate == <<"b", "1">>

DateTokens ==
  { Absent, NotAString, Str(Today), Str(Tomorrow), Str(Yesterday), Str(IsoDay),
    Str(IsoDayAndHour), Str(IsoNoSuchDay), Str(NotADate) }

\* The (dueAfter, dueBefore) pairs of the blocks: every token alone on either
\* side, the pairs of a day, a string that is no date and a day the calendar
\* does not have, and two pairs of relative and absolute tokens.
DatePairs ==
  { <<a, Absent>> : a \in DateTokens } \cup { <<Absent, b>> : b \in DateTokens }
  \cup { <<a, b>> : a, b \in {Str(IsoDay), Str(NotADate), Str(IsoNoSuchDay)} }
  \cup { <<Str(Today), Str(Tomorrow)>>, <<Str(Yesterday), Str(IsoDayAndHour)>> }

\* Blocks that list issues by due date, sorted and without descriptions.
DateBlocks ==
  { [EmptyBlock EXCEPT !.dueAfter = d[1], !.dueBefore = d[2],
                       !.sorting = Str(<<"d", "a", "t", "e", "A", "s", "c", "e", "n", "d", "i", "n", "g">>),
                       !.hideDescription = TRUE] : d \in DatePairs }

\* Blocks that name issues by ID.
IdBlocks ==
  { [EmptyBlock EXCEPT !.ids = << Str(<<"A", "-", "1">>), NotAString,
                                  Str(<<"B", "-", "1">>), Str(<<"A", "-", "2">>) >>,
                       !.id = Str(<<"B", "-", "2">>), !.team = Str(<<"A", "b">>)],
    [EmptyBlock EXCEPT !.ids = << NotAString >>],
    [EmptyBlock EXCEPT !.id = Str(<<"B", "-", "2">>), !.status = Str(<<"b", "1">>)],
    [EmptyBlock EXCEPT !.id = NotAString, !.issueId = Str(<<"A", "-", "1">>)] }

Blocks == DateBlocks \cup IdBlocks \cup {NullBlock}

\* 05:00 of day 10 west of UTC, with debug mode off; 08:00 of day 11 and 19:00
\* of day 10 east of it, with debug mode on and off.
Envs == { Env(FALSE, 250, -5), Env(TRUE, 263, 9), Env(FALSE, 250, 9) }

\* What the remote answers to client.issue(id); "nokey" is the error of
\* ensureClient when no API key is configured.
IssueAnswers == {"found", "absent", "error", "nokey"}

\* ---------------------------------------------------------------- settings
\* DEFAULT_SETTINGS of settings.ts: one integration named "default", which is
\* the default integration.
DefaultName == <<"d", "e", "f", "a", "u", "l", "t">>

\* A LinearIntegration: { name, apiKey }.
Integration(name, key) == [name |-> name, apiKey |-> key]

DEFAULT_SETTINGS ==
  [integrations |-> << Integration(DefaultName, <<>>) >>,
   defaultIntegration |-> DefaultName]

\* ------------------------------------------------------------------ state
VARIABLES
  apiKey,               \* settings.apiKey is configured
  now,                  \* Date.now()
  clockSteps,           \* number of clock advances so far
  calls,                \* number of calls started so far
  remotePages,          \* number of pages the remote's workflow states fill
  services,             \* per LinearService instance: teamCache, workflowStatesCache
  this,                 \* the instance whose method the next step runs
  task,                 \* per caller: position, locals and what it has observed
  integrations,         \* settings.integrations, in list order
  defaultIntegration,   \* settings.defaultIntegration
  tabNotice             \* the Notice the last handler of the settings tab showed

\* The variables of the settings tab.
tabVars == <<integrations, defaultIntegration, tabNotice>>

vars == <<apiKey, now, clockSteps, calls, remotePages, services, this, task,
          tabVars>>

NullCache == [isNull |-> TRUE, timestamp |-> 0, states |-> <<>>]

NoAge == -1

EmptyMap == [x \in {} |-> ""]

\* The fields of a LinearService after its constructor.
NewService == [teamCache |-> EmptyMap, workflowStatesCache |-> NullCache]

\* this.teamCache and this.workflowStatesCache
teamCache == services[this].teamCache
workflowStatesCache == services[this].workflowStatesCache

WithTeamCache(all, i, cache) == [all EXCEPT ![i].teamCache = cache]

WithStatesCacheOfAll(all, i, entry) ==
  [j \in DOMAIN all |-> [all[j] EXCEPT !.workflowStatesCache = entry]]

WithStatesCache(all, i, entry) == [all EXCEPT ![i].workflowStatesCache = entry]

NoIssuesReq == [sent |-> FALSE, first |-> 0, keys |-> {}, team |-> "", state |-> "",
                assignee |-> <<>>, dueKeys |-> {}, gte |-> NoDate, lt |-> NoDate]

IdleTask ==
  [pc |-> "idle", op |-> "none", options |-> Opt(<<>>, <<>>, <<>>, NoDateFilter, NoSorting, 0),
   teamId |-> "", stateId |-> "", allStates |-> <<>>, after |-> NoCursor,
   nodes |-> <<>>, idx |-> 0,
   outcome |-> "none", issuesOut |-> <<>>,
   wsOutcome |-> "none", wsValue |-> <<>>,
   teamOutcome |-> "none",
   notices |-> <<>>, reqs |-> <<>>, served |-> <<>>, listed |-> <<>>,
   issuesReq |-> NoIssuesReq,
   failed |-> {},
   ageAtStart |-> NoAge,
   indexAtStart |-> {},
   block |-> EmptyBlock, env |-> NoEnv, mode |-> "none", found |-> FALSE,
   hasClient |-> FALSE, teamsOut |-> <<>>,
   rendered |-> <<>>, console |-> <<>>, issueReqs |-> <<>>,
   ranges |-> NoRanges]

Init ==
  /\ apiKey \in BOOLEAN
  /\ now = 0
  /\ clockSteps = 0
  /\ calls = 0
  /\ remotePages \in 1..MaxPages
  /\ services = [i \in Instances |-> NewService]
  /\ this = 1
  /\ task = [p \in Procs |-> IdleTask]
  /\ integrations = DEFAULT_SETTINGS.integrations
  /\ defaultIntegration = DEFAULT_SETTINGS.defaultIntegration
  /\ tabNotice = ""

\* ------------------------------------------------------------- helpers
Min(S) == CHOOSE x \in S : \A y \in S : x <= y

isCacheValidTtlInSeconds ==
  /\ ~workflowStatesCache.isNull
  /\ now - workflowStatesCache.timestamp < 5 * 60

\* private isCacheValid()
isCacheValid ==
  /\ ~workflowStatesCache.isNull
  /\ now - workflowStatesCache.timestamp < CACHE_TTL

\* new Notice(...) texts, kept as (text before the name, the name, text after it).
TeamNotFoundNoticeLowercased(teamName) ==
  [prefix |-> "Team \"", name |-> toLowerCase(teamName), suffix |-> "\" not found"]

TeamNotFoundNotice(teamName) ==
  [prefix |-> "Team \"", name |-> teamName, suffix |-> "\" not found"]

StatusNotFoundNotice(status, teamId) ==
  [prefix |-> "Status \"", name |-> status,
   suffix |-> IF teamId # "" THEN "\" not found for the specified team"
                             ELSE "\" not found"]

FailedNotice ==
  [prefix |-> "Failed to fetch Linear issues", name |-> <<>>, suffix |-> ""]

Sent(s, kind, after) == Append(s.reqs, [kind |-> kind, after |-> after])

\* ---------------------------------------------------- what process renders
\* The children of the block's element, in document order.
Entry(kind, id, text) ==
  [kind |-> kind, id |-> id, text |-> text, mentions |-> {}, description |-> FALSE]

Loading == Entry("loading", <<>>, "Loading Linear issues...")
IssueEntry(id) == Entry("issue", id, "")
NotFoundEntry(id) == Entry("notFound", id, "No Linear issue found for ID: ")
RenderErrorEntry(id) == Entry("renderError", id, "Failed to render issue ")
NoIssuesForIds == Entry("message", <<>>, "No Linear issues found for the provided IDs.")
ErrorLoading ==
  Entry("error", <<>>, "Error loading Linear issues. Please check the console for details.")

\* Lines 324-335: the message for an empty list names the team, status,
\* assignee and sorting of the options.
NoIssuesMessage(o) ==
  LET mentions == (IF o.teamName # <<>> THEN {"team"} ELSE {}) \cup
                  (IF o.status # <<>> THEN {"status"} ELSE {}) \cup
                  (IF o.assigneeEmail # <<>> THEN {"assignee"} ELSE {}) \cup
                  (IF o.sorting.field # "" THEN {"sorting"} ELSE {})
  IN [Entry("message", <<>>,
            IF mentions = {} THEN "No issues found" ELSE "No issues found for ")
        EXCEPT !.mentions = mentions]

\* process returns.
Finish(s) == [s EXCEPT !.pc = "done"]

\* renderIssue up to `await issue.state`: the issue's element is in place.
renderIssue(s, id) ==
  [s EXCEPT !.pc = "awaitRender", !.rendered = Append(@, IssueEntry(id)),
            !.reqs = Sent(s, "issueState", NoCursor)]

\* Lines 338-341: the issues of the list, rendered one after the other.
RenderList(s, i) ==
  IF i > Len(s.issuesOut) THEN Finish(s)
  ELSE renderIssue([s EXCEPT !.idx = i], <<s.issuesOut[i].id>>)

\* Lines 319-341: process after `await getIssues(options)`.
AfterGetIssues(s) ==
  IF s.issuesOut = <<>>
    THEN Finish([s EXCEPT !.rendered = <<NoIssuesMessage(s.options)>>])
    ELSE RenderList([s EXCEPT !.rendered = <<>>], 1)

\* `return nodes` / `return []` of getIssues; a process call goes on to render.
ReturnIssues(s, issues) ==
  LET s1 == [s EXCEPT !.outcome = "returned", !.issuesOut = issues]
  IN IF s.op = "process" THEN AfterGetIssues(s1) ELSE [s1 EXCEPT !.pc = "done"]

NotifyAndReturnEmpty(s, notice) ==
  [ReturnIssues(s, <<>>) EXCEPT !.notices = Append(@, notice)]

GetIssuesCatchRethrows(s, what) ==
  [s EXCEPT !.pc = "done", !.outcome = "threw", !.failed = @ \cup {what}]

\* The catch block of getIssues: whatever was thrown inside the try.
GetIssuesCatch(s, what) ==
  NotifyAndReturnEmpty([s EXCEPT !.failed = @ \cup {what}], FailedNotice)

FindTeamIdExactCase(teams, normalizedTeamName) ==
  LET m == {i \in 1..Len(teams) : teams[i].name = normalizedTeamName}
  IN IF m = {} THEN "" ELSE teams[Min(m)].id

\* The scan of getTeamIdByName over the fetched teams: the first team whose
\* lowercased name equals the lowercased query, "" when there is none.
FindTeamId(teams, normalizedTeamName) ==
  LET m == {i \in 1..Len(teams) : toLowerCase(teams[i].name) = normalizedTeamName}
  IN IF m = {} THEN "" ELSE teams[Min(m)].id

CacheTeamStartsAfresh(cache, normalizedTeamName, id) ==
  (normalizedTeamName :> id)

CacheTeamIndexesListing(cache, normalizedTeamName, id) ==
  [k \in DOMAIN cache \cup {toLowerCase(RemoteTeams[i].name) : i \in 1..Len(RemoteTeams)} |->
     FindTeamId(RemoteTeams, k)]

\* this.teamCache.set(normalizedTeamName, team.id)
CacheTeam(cache, normalizedTeamName, id) ==
  (normalizedTeamName :> id) @@ cache

StateMatchesAnyTeam(state, normalizedSearchName, teamId) ==
  normalizeStateName(state.name) = normalizedSearchName

\* The scan of getStatusByName: the id of the first state that matches, "" for null.
StateMatches(state, normalizedSearchName, teamId) ==
  /\ normalizeStateName(state.name) = normalizedSearchName
  /\ (teamId = "" \/ state.team = NoTeam \/ state.team = teamId)

FindStateIdLastMatch(states, statusName, teamId) ==
  LET m == {i \in 1..Len(states) :
              StateMatches(states[i], normalizeStateName(statusName), teamId)}
  IN IF m = {} THEN "" ELSE states[CHOOSE i \in m : \A j \in m : j <= i].id

FindStateId(states, statusName, teamId) ==
  LET m == {i \in 1..Len(states) :
              StateMatches(states[i], normalizeStateName(statusName), teamId)}
  IN IF m = {} THEN "" ELSE states[Min(m)].id

\* ------------------------------------------- due-date filter and the query
Truthy(v) == v # NoDate /\ v # 0

isDateFilter(f) == f.before # NoDate \/ f.after # NoDate

DueKeys(f) ==
  IF isDateFilter(f)
    THEN (IF Truthy(f.after) THEN {"gte"} ELSE {}) \cup
         (IF Truthy(f.before) THEN {"lt"} ELSE {})
    ELSE {}

IssuesRequestDueNeedsBoth(s) ==
  LET o == s.options
      dk == DueKeys(o.dueDateFilter)
  IN [sent |-> TRUE,
      first |-> o.limit,
      keys |-> (IF s.teamId # "" THEN {"team"} ELSE {}) \cup
               (IF s.stateId # "" THEN {"state"} ELSE {}) \cup
               (IF o.assigneeEmail # <<>> THEN {"assignee"} ELSE {}) \cup
               (IF dk = {"gte", "lt"} THEN {"dueDate"} ELSE {}),
      team |-> s.teamId,
      state |-> s.stateId,
      assignee |-> o.assigneeEmail,
      dueKeys |-> dk,
      gte |-> IF "gte" \in dk THEN o.dueDateFilter.after ELSE NoDate,
      lt |-> IF "lt" \in dk THEN o.dueDateFilter.before ELSE NoDate]

IssuesRequestDefaultCap(s) ==
  LET o == s.options
      dk == DueKeys(o.dueDateFilter)
  IN [sent |-> TRUE,
      first |-> IF o.limit = 0 THEN 50 ELSE o.limit,
      keys |-> (IF s.teamId # "" THEN {"team"} ELSE {}) \cup
               (IF s.stateId # "" THEN {"state"} ELSE {}) \cup
               (IF o.assigneeEmail # <<>> THEN {"assignee"} ELSE {}) \cup
               (IF dk # {} THEN {"dueDate"} ELSE {}),
      team |-> s.teamId,
      state |-> s.stateId,
      assignee |-> o.assigneeEmail,
      dueKeys |-> dk,
      gte |-> IF "gte" \in dk THEN o.dueDateFilter.after ELSE NoDate,
      lt |-> IF "lt" \in dk THEN o.dueDateFilter.before ELSE NoDate]

\* The argument of client.issues(...): keys = {} stands for `filter: undefined`,
\* first = 0 for `first: undefined`.
IssuesRequest(s) ==
  LET o == s.options
      dk == DueKeys(o.dueDateFilter)
  IN [sent |-> TRUE,
      first |-> o.limit,
      keys |-> (IF s.teamId # "" THEN {"team"} ELSE {}) \cup
               (IF s.stateId # "" THEN {"state"} ELSE {}) \cup
               (IF o.assigneeEmail # <<>> THEN {"assignee"} ELSE {}) \cup
               (IF dk # {} THEN {"dueDate"} ELSE {}),
      team |-> s.teamId,
      state |-> s.stateId,
      assignee |-> o.assigneeEmail,
      dueKeys |-> dk,
      gte |-> IF "gte" \in dk THEN o.dueDateFilter.after ELSE NoDate,
      lt |-> IF "lt" \in dk THEN o.dueDateFilter.before ELSE NoDate]

\* Lines 301-330: compose the filter and send the issue listing.
IssuesStage(s) ==
  [s EXCEPT !.pc = "awaitIssues", !.issuesReq = IssuesRequest(s),
            !.reqs = Sent(s, "issues", NoCursor)]

\* ------------------------------------------------------------------ sort
compareUndatedFollowDirection(a, b, direction) ==
  IF a.dueDate = 0 /\ b.dueDate = 0 THEN 0
  ELSE IF a.dueDate = 0 THEN (IF direction = "asc" THEN 1 ELSE -1)
  ELSE IF b.dueDate = 0 THEN (IF direction = "asc" THEN -1 ELSE 1)
  ELSE IF direction = "asc" THEN a.dueDate - b.dueDate
  ELSE b.dueDate - a.dueDate

compareAlwaysAscending(a, b, direction) ==
  IF a.dueDate = 0 /\ b.dueDate = 0 THEN 0
  ELSE IF a.dueDate = 0 THEN 1
  ELSE IF b.dueDate = 0 THEN -1
  ELSE a.dueDate - b.dueDate

\* The comparator of lines 340-350.
compare(a, b, direction) ==
  IF a.dueDate = 0 /\ b.dueDate = 0 THEN 0
  ELSE IF a.dueDate = 0 THEN 1
  ELSE IF b.dueDate = 0 THEN -1
  ELSE IF direction = "asc" THEN a.dueDate - b.dueDate
  ELSE b.dueDate - a.dueDate

InsertSortedBeforeEquals(sorted, x, direction) ==
  LET k == Cardinality({i \in 1..Len(sorted) : compare(sorted[i], x, direction) < 0})
  IN SubSeq(sorted, 1, k) \o <<x>> \o SubSeq(sorted, k + 1, Len(sorted))

\* Array.prototype.sort is stable: an element goes after every earlier element
\* that does not compare greater than it.
InsertSorted(sorted, x, direction) ==
  LET k == Cardinality({i \in 1..Len(sorted) : compare(sorted[i], x, direction) <= 0})
  IN SubSeq(sorted, 1, k) \o <<x>> \o SubSeq(sorted, k + 1, Len(sorted))

RECURSIVE SortFrom(_, _, _, _)
SortFrom(nodes, i, acc, direction) ==
  IF i > Len(nodes) THEN acc
  ELSE SortFrom(nodes, i + 1, InsertSorted(acc, nodes[i], direction), direction)

SortIssuesDropsUndated(nodes, sorting) ==
  IF sorting.field = "date"
    THEN SortFrom(SelectSeq(nodes, LAMBDA n : n.dueDate # 0), 1, <<>>, sorting.direction)
    ELSE nodes

SortIssues(nodes, sorting) ==
  IF sorting.field = "date" THEN SortFrom(nodes, 1, <<>>, sorting.direction)
  ELSE nodes

\* The logging loop of lines 365-379: the next issue whose assignee is awaited.
AssigneeLoop(s, from) ==
  LET rest == {i \in from..Len(s.nodes) : s.nodes[i].assignee}
  IN IF rest = {} THEN ReturnIssues(s, s.nodes)
     ELSE [s EXCEPT !.pc = "awaitAssignee", !.idx = Min(rest),
                    !.reqs = Sent(s, "assignee", NoCursor)]

\* --------------------------------------------------- status resolution
AfterStatesUnscoped(s, states) ==
  LET id == FindStateId(states, s.options.status, "")
  IN IF id = ""
       THEN NotifyAndReturnEmpty(s, StatusNotFoundNotice(s.options.status, s.teamId))
       ELSE IssuesStage([s EXCEPT !.stateId = id])

AfterStatesOmitsClause(s, states) ==
  IssuesStage([s EXCEPT !.stateId = FindStateId(states, s.options.status, s.teamId)])

\* getStatusByName after getWorkflowStates has answered, and lines 291-299.
AfterStates(s, states) ==
  LET id == FindStateId(states, s.options.status, s.teamId)
  IN IF id = ""
       THEN NotifyAndReturnEmpty(s, StatusNotFoundNotice(s.options.status, s.teamId))
       ELSE IssuesStage([s EXCEPT !.stateId = id])

\* getWorkflowStates returns `states` to its caller.
WSReturn(s, states) ==
  LET s1 == [s EXCEPT !.wsOutcome = "returned", !.wsValue = states]
  IN IF s.op = "getWorkflowStates" THEN [s1 EXCEPT !.pc = "done"]
     ELSE AfterStates(s1, states)

WSThrowServesStale(s, what) ==
  WSReturn([s EXCEPT !.failed = @ \cup {what}], workflowStatesCache.states)

WSThrowRetriesOnce(s, what) ==
  LET s1 == [s EXCEPT !.wsOutcome = "threw", !.wsValue = <<>>, !.failed = @ \cup {what}]
  IN IF what = "page" /\ "page" \notin s.failed
       THEN [s EXCEPT !.failed = @ \cup {what}, !.reqs = Sent(s, "page", s.after)]
     ELSE IF s.op = "getWorkflowStates" THEN [s1 EXCEPT !.pc = "done"]
     ELSE NotifyAndReturnEmpty(s1, StatusNotFoundNotice(s.options.status, s.teamId))

\* getWorkflowStates throws "Failed to fetch workflow states"; getStatusByName
\* catches it and returns null.
WSThrow(s, what) ==
  LET s1 == [s EXCEPT !.wsOutcome = "threw", !.wsValue = <<>>, !.failed = @ \cup {what}]
  IN IF s.op = "getWorkflowStates" THEN [s1 EXCEPT !.pc = "done"]
     ELSE NotifyAndReturnEmpty(s1, StatusNotFoundNotice(s.options.status, s.teamId))

RequestCursorDropped(after) == NoCursor

\* The variables of rawRequest: `after ? { after } : undefined`.
RequestCursor(after) == IF after # NoCursor THEN after ELSE NoCursor

SendPage(s) ==
  [s EXCEPT !.pc = "awaitPage", !.reqs = Sent(s, "page", RequestCursor(s.after))]

AdvanceCursorStays(after, pageInfo) == after

\* after = pageInfo.endCursor
AdvanceCursor(after, pageInfo) == pageInfo.endCursor

ConcatPagePrepends(allStates, nodes) == nodes \o allStates

\* allStates = allStates.concat(nodes)
ConcatPage(allStates, nodes) == allStates \o nodes

CacheEntryKeepsFirst(old, allStates) ==
  IF old.isNull THEN [isNull |-> FALSE, timestamp |-> now, states |-> allStates]
  ELSE old

CacheEntryMerges(old, allStates) ==
  [isNull |-> FALSE, timestamp |-> now, states |-> old.states \o allStates]

\* this.workflowStatesCache = { timestamp: Date.now(), states: allStates }
CacheEntry(old, allStates) ==
  [isNull |-> FALSE, timestamp |-> now, states |-> allStates]

\* Whether some call is suspended in a page request.
FetchInFlight == \E q \in Procs : task[q].pc = "awaitPage"

\* Date.now() - this.workflowStatesCache.timestamp, NoAge without an entry.
CacheAge ==
  IF workflowStatesCache.isNull THEN NoAge ELSE now - workflowStatesCache.timestamp

getWorkflowStatesJoinsInFlight(s) ==
  LET s1 == [s EXCEPT !.wsOutcome = "pending", !.ageAtStart = CacheAge,
                      !.allStates = <<>>, !.after = NoCursor]
  IN IF isCacheValid \/ FetchInFlight THEN WSReturn(s1, workflowStatesCache.states)
     ELSE IF ~apiKey THEN WSThrow(s1, "apiKey")
     ELSE SendPage(s1)

\* getWorkflowStates up to its first await.
getWorkflowStates(s) ==
  LET s1 == [s EXCEPT !.wsOutcome = "pending", !.ageAtStart = CacheAge,
                      !.allStates = <<>>, !.after = NoCursor]
  IN IF isCacheValid THEN WSReturn(s1, workflowStatesCache.states)
     ELSE IF ~apiKey THEN WSThrow(s1, "apiKey")
     ELSE SendPage(s1)

\* Lines 289-299.
StatusStage(s) ==
  IF s.options.status # <<>> THEN getWorkflowStates(s) ELSE IssuesStage(s)

TeamStageStatusFirst(s) == StatusStage(s)

\* Lines 277-287 with getTeamIdByName up to its await.
TeamStage(s) ==
  LET name == s.options.teamName
      normalizedTeamName == toLowerCase(name)
      s1 == [s EXCEPT !.indexAtStart = DOMAIN teamCache]
  IN IF name = <<>> THEN StatusStage(s)
     ELSE IF normalizedTeamName \in DOMAIN teamCache
       THEN IF teamCache[normalizedTeamName] = ""
              THEN NotifyAndReturnEmpty([s1 EXCEPT !.teamOutcome = "null"],
                                        TeamNotFoundNotice(name))
              ELSE StatusStage([s1 EXCEPT !.teamOutcome = "cached",
                                          !.teamId = teamCache[normalizedTeamName]])
       ELSE [s1 EXCEPT !.pc = "awaitTeams", !.reqs = Sent(s1, "teams", NoCursor)]

\* ------------------------------------------------------------ date tokens
\* Instants are whole hours since 2023-12-31T00:00Z and local time is UTC plus
\* a fixed offset; days are numbered from that origin, so that day 1 is
\* 2024-01-01, and the calendar covers the year 2024.
HoursPerDay == 24
CalendarYear == 2024
DaysInMonth == <<31, 29, 31, 30, 31, 30, 31, 31, 30, 31, 30, 31>>
DaysBeforeMonth == <<0, 31, 60, 91, 121, 152, 182, 213, 244, 274, 305, 335>>

\* The time value of an invalid Date, and a targetDate that is still null.
NaN == -2
NoTarget == -3

Max(S) == CHOOSE x \in S : \A y \in S : x >= y

\* String.prototype.trim
trim(s) ==
  LET kept == {i \in 1..Len(s) : s[i] # " "}
  IN IF kept = {} THEN <<>> ELSE SubSeq(s, Min(kept), Max(kept))

Digits == <<"0", "1", "2", "3", "4", "5", "6", "7", "8", "9">>
IsDigit(c) == \E i \in 1..Len(Digits) : Digits[i] = c
DigitValue(c) == (CHOOSE i \in 1..Len(Digits) : Digits[i] = c) - 1
TwoDigits(s, i) == 10 * DigitValue(s[i]) + DigitValue(s[i + 1])
FourDigits(s, i) == 100 * TwoDigits(s, i) + TwoDigits(s, i + 2)

\* /^\d{4}-\d{2}-\d{2}$/
IsIsoDate(s) ==
  /\ Len(s) = 10
  /\ \A i \in 1..10 : IF i \in {5, 8} THEN s[i] = "-" ELSE IsDigit(s[i])

LocalDay(t, tz) == (t + tz) \div HoursPerDay
LocalMidnight(day, tz) == day * HoursPerDay - tz

\* new Date(`${date}T${hour}:00:00`): a date and hour of local time, or an
\* invalid Date when the calendar has no such day.
LocalDateTime(date, hour, tz) ==
  LET y == FourDigits(date, 1)
      m == TwoDigits(date, 6)
      d == TwoDigits(date, 9)
  IN IF y = CalendarYear /\ m \in 1..12 /\ d \in 1..DaysInMonth[m] /\ hour < HoursPerDay
       THEN LocalMidnight(DaysBeforeMonth[m] + d, tz) + hour
       ELSE NaN

\* new Date(value) on the strings that reach the fallback: YYYY-MM-DDTHH:00 is
\* a local date and time, any other string is not a date.
IsIsoDateTime(s) ==
  /\ Len(s) = 16
  /\ IsIsoDate(SubSeq(s, 1, 10))
  /\ s[11] = "T" /\ IsDigit(s[12]) /\ IsDigit(s[13])
  /\ SubSeq(s, 14, 16) = <<":", "0", "0">>

DateOf(value, tz) ==
  IF IsIsoDateTime(value) THEN LocalDateTime(SubSeq(value, 1, 10), TwoDigits(value, 12), tz)
  ELSE NaN

\* Date.prototype.setHours(0, 0, 0, 0)
setHoursZero(t, tz) == IF t = NaN THEN NaN ELSE LocalMidnight(LocalDay(t, tz), tz)

\* d.setDate(d.getDate() + n)
setDate(t, n, tz) == IF t = NaN THEN NaN ELSE t + n * HoursPerDay

\* Date.prototype.toISOString: the UTC text of an instant, written here as the
\* instant it denotes; an invalid Date raises RangeError.
RangeError == -4
toISOString(t) == IF t = NaN THEN RangeError ELSE t

\* Lines 120-137: the target date of a token, NoTarget while it is null.
TargetDate(value, normalized, today, tz) ==
  IF normalized = <<"t", "o", "d", "a", "y">> THEN today
  ELSE IF normalized = <<"t", "o", "m", "o", "r", "r", "o", "w">> THEN setDate(today, 1, tz)
  ELSE IF normalized = <<"y", "e", "s", "t", "e", "r", "d", "a", "y">>
    THEN setDate(today, -1, tz)
  ELSE IF IsIsoDate(normalized) THEN LocalDateTime(normalized, 0, tz)
  ELSE IF DateOf(value, tz) # NaN THEN DateOf(value, tz)
  ELSE NoTarget

\* Lines 146-152: the range that begins at `start`, or the RangeError that
\* toISOString raises.
RangeFrom(start, tz) ==
  IF toISOString(start) = RangeError THEN DateRange("throws", NoDate, NoDate)
  ELSE DateRange("range", toISOString(start), toISOString(setDate(start, 1, tz)))

\* Lines 139-144.
RangeOfTarget(targetDate, tz) ==
  IF targetDate = NoTarget THEN DateRange("null", NoDate, NoDate)
  ELSE RangeFrom(setHoursZero(targetDate, tz), tz)

\* parseDateValue: a range, null, or the exception of toISOString.
parseDateValue(value, env) ==
  RangeOfTarget(TargetDate(value, toLowerCase(trim(value)),
                           setHoursZero(env.clock, env.tz), env.tz),
                env.tz)

\* `v && typeof v === 'string'`
IsNonEmptyString(v) == v.type = "string" /\ v.chars # <<>>

\* The range of one of the two tokens, "skipped" when the block has none.
TokenRange(v, env) ==
  IF IsNonEmptyString(v) THEN parseDateValue(v.chars, env)
  ELSE DateRange("skipped", NoDate, NoDate)

FailedAfter == "Failed to parse dueAfter option"
FailedBefore == "Failed to parse dueBefore option"
FailedOptions == "Failed to parse Linear block options"

\* `isDateFilter(dueDateFilter) ? dueDateFilter : undefined`
DefinedFilter(f) == IF isDateFilter(f) THEN f ELSE NoDateFilter

DueDateFilterUsesEnd(a, b) ==
  IF a.kind = "throws" THEN [threw |-> TRUE, filter |-> NoDateFilter, errors |-> <<>>]
  ELSE IF b.kind = "throws"
    THEN [threw |-> TRUE, filter |-> NoDateFilter,
          errors |-> IF a.kind = "null" THEN <<FailedAfter>> ELSE <<>>]
  ELSE [threw |-> FALSE,
        filter |-> DefinedFilter([after |-> IF a.kind = "range" THEN a.start ELSE NoDate,
                                  before |-> IF b.kind = "range" THEN b.end ELSE NoDate]),
        errors |-> (IF a.kind = "null" THEN <<FailedAfter>> ELSE <<>>) \o
                   (IF b.kind = "null" THEN <<FailedBefore>> ELSE <<>>)]

\* Lines 90-112 for the ranges a and b of the two tokens: the filter, the
\* errors logged, and whether an exception ended the function.
DueDateFilter(a, b) ==
  IF a.kind = "throws" THEN [threw |-> TRUE, filter |-> NoDateFilter, errors |-> <<>>]
  ELSE IF b.kind = "throws"
    THEN [threw |-> TRUE, filter |-> NoDateFilter,
          errors |-> IF a.kind = "null" THEN <<FailedAfter>> ELSE <<>>]
  ELSE [threw |-> FALSE,
        filter |-> DefinedFilter([after |-> IF a.kind = "range" THEN a.start ELSE NoDate,
                                  before |-> IF b.kind = "range" THEN b.start ELSE NoDate]),
        errors |-> (IF a.kind = "null" THEN <<FailedAfter>> ELSE <<>>) \o
                   (IF b.kind = "null" THEN <<FailedBefore>> ELSE <<>>)]

parseDueDateOptions(parsed, env) ==
  DueDateFilter(TokenRange(parsed.dueAfter, env), TokenRange(parsed.dueBefore, env))

StringOption(v) == IF IsNonEmptyString(v) THEN v.chars ELSE <<>>

\* Lines 55-68: the sorting option.
SortingOption(v) ==
  LET sortValue == toLowerCase(v.chars)
  IN IF ~IsNonEmptyString(v) THEN NoSorting
     ELSE IF sortValue \in { <<"d", "a", "t", "e">>,
                            <<"d", "a", "t", "e", "d", "e", "s", "c", "e", "n", "d", "i", "n", "g">> }
       THEN [field |-> "date", direction |-> "desc"]
     ELSE IF sortValue = <<"d", "a", "t", "e", "a", "s", "c", "e", "n", "d", "i", "n", "g">>
       THEN [field |-> "date", direction |-> "asc"]
     ELSE NoSorting

\* Lines 34-76 given what parseDueDateOptions did: the options, and the errors
\* handed to log.  An exception inside the try leaves the options as far as
\* they were filled.
OptionsWith(parsed, due) ==
  IF ~parsed.isObject
    THEN [options |-> Opt(<<>>, <<>>, <<>>, NoDateFilter, NoSorting, 0), errors |-> <<>>]
  ELSE IF due.threw
    THEN [options |-> Opt(StringOption(parsed.team), StringOption(parsed.status),
                          StringOption(parsed.assignee), NoDateFilter, NoSorting,
                          IF parsed.limit > 0 THEN parsed.limit ELSE 0),
          errors |-> Append(due.errors, FailedOptions)]
  ELSE [options |-> [Opt(StringOption(parsed.team), StringOption(parsed.status),
                         StringOption(parsed.assignee), due.filter,
                         SortingOption(parsed.sorting),
                         IF parsed.limit > 0 THEN parsed.limit ELSE 0)
                       EXCEPT !.hideDescription = parsed.hideDescription],
        errors |-> due.errors]

parseOptions(parsed, env) == OptionsWith(parsed, parseDueDateOptions(parsed, env))

\* What the calls of parseDateValue gave: the exception of the first call
\* leaves no second call.
RangesMade(a, b) ==
  [after |-> a,
   before |-> IF a.kind = "throws" THEN DateRange("skipped", NoDate, NoDate) ELSE b]

RangesOf(parsed, env) ==
  RangesMade(TokenRange(parsed.dueAfter, env), TokenRange(parsed.dueBefore, env))

\* LinearProcessor.log of an error: the console, and only in debug mode.
log(env, errors) == IF env.debugMode THEN errors ELSE <<>>

\* ---------------------------------------------------------- process stages
\* `parsed.id || parsed.issueId`
IssueIdOf(parsed) ==
  IF parsed.id.type = "absent" \/ parsed.id = Str(<<>>) THEN parsed.issueId ELSE parsed.id

\* The ID a by-ID fetch in flight asks for.
CurrentId(s) ==
  IF s.mode = "ids" THEN s.block.ids[s.idx].chars ELSE IssueIdOf(s.block).chars

\* getIssueById up to `await client.issue(issueId)`; without an API key
\* ensureClient throws and nothing is sent.
getIssueById(s, i) ==
  LET s1 == [s EXCEPT !.pc = "awaitIssueById", !.idx = i, !.hasClient = apiKey]
  IN IF apiKey
       THEN [s1 EXCEPT !.reqs = Sent(s, "issue", NoCursor),
                       !.issueReqs = Append(@, CurrentId(s1))]
       ELSE s1

NoIssueNotice(id) ==
  [prefix |-> "No Linear issue found for ID: ", name |-> id, suffix |-> ""]

FailedIssueNotice(id) ==
  [prefix |-> "Failed to fetch Linear issue for ID: ", name |-> id, suffix |-> ""]

\* Lines 284-301: the loop over parsed.ids from position `from`; an element
\* that is not a string is passed over.
IdsLoop(s, from) ==
  LET rest == {i \in from..Len(s.block.ids) : s.block.ids[i].type = "string"}
  IN IF rest = {}
       THEN Finish([s EXCEPT !.rendered = IF s.found THEN @ ELSE Append(@, NoIssuesForIds)])
       ELSE getIssueById(s, Min(rest))

AfterIssueStopsAtMissing(s) ==
  IF s.mode = "ids"
    THEN (IF s.rendered[Len(s.rendered)].kind = "notFound" THEN Finish(s)
          ELSE IdsLoop(s, s.idx + 1))
  ELSE IF s.mode = "list" THEN RenderList(s, s.idx + 1)
  ELSE Finish(s)

\* What follows a renderIssue call or a null issue, by fetch mode.
AfterIssue(s) ==
  IF s.mode = "ids" THEN IdsLoop(s, s.idx + 1)
  ELSE IF s.mode = "list" THEN RenderList(s, s.idx + 1)
  ELSE Finish(s)

\* The outer catch of process.
ProcessCatch(s) == Finish([s EXCEPT !.rendered = <<ErrorLoading>>])

\* ---------------------------------------------------------------- actions
CanCall(p) == task[p].pc \in {"idle", "done"} /\ calls < MaxCalls

\* getIssues(options) up to its first await.
CallGetIssues(p, o) ==
  /\ CanCall(p)
  /\ calls' = calls + 1
  /\ LET s0 == [IdleTask EXCEPT !.op = "getIssues", !.options = o,
                                !.outcome = "pending"]
     IN task' = [task EXCEPT ![p] = IF ~apiKey THEN GetIssuesCatch(s0, "apiKey")
                                    ELSE TeamStage(s0)]
  /\ UNCHANGED <<apiKey, now, clockSteps, remotePages, services, this, tabVars>>

\* A direct call of the public getWorkflowStates().
CallGetWorkflowStates(p) ==
  /\ CanCall(p)
  /\ calls' = calls + 1
  /\ task' = [task EXCEPT ![p] =
                getWorkflowStates([IdleTask EXCEPT !.op = "getWorkflowStates"])]
  /\ UNCHANGED <<apiKey, now, clockSteps, remotePages, services, this, tabVars>>

\* client.teams() answers with the listing `teams` or fails: the rest of
\* getTeams and getTeamIdByName, then getIssues.
TeamsListed(p, ok, teams) ==
  LET s == task[p]
      name == s.options.teamName
      id == FindTeamId(teams, toLowerCase(name))
  IN /\ s.pc = "awaitTeams"
     /\ IF ok /\ id # ""
          THEN /\ services' = WithTeamCache(services, this,
                                             CacheTeam(teamCache, toLowerCase(name), id))
               /\ task' = [task EXCEPT ![p] =
                             StatusStage([s EXCEPT !.teamOutcome = "found", !.teamId = id])]
          ELSE /\ services' = services
               /\ task' = [task EXCEPT ![p] =
                    NotifyAndReturnEmpty(
                      [s EXCEPT !.teamOutcome = "null",
                                !.failed = IF ok THEN @ ELSE @ \cup {"teams"}],
                      TeamNotFoundNotice(name))]
     /\ UNCHANGED <<apiKey, now, clockSteps, calls, remotePages, this, tabVars>>

\* getTeams() called directly, up to its first await: ensureClient throws
\* without a key and the catch rethrows "Failed to fetch teams".
CallGetTeams(p) ==
  /\ CanCall(p)
  /\ calls' = calls + 1
  /\ LET s0 == [IdleTask EXCEPT !.op = "getTeams", !.outcome = "pending"]
     IN task' = [task EXCEPT ![p] =
           IF ~apiKey THEN GetIssuesCatchRethrows(s0, "apiKey")
           ELSE [s0 EXCEPT !.pc = "awaitGetTeams", !.reqs = Sent(s0, "teams", NoCursor)]]
  /\ UNCHANGED <<apiKey, now, clockSteps, remotePages, services, this, tabVars>>

\* client.teams() answers a direct getTeams() call: the nodes, or the rethrow.
GetTeamsResponse(p, ok) ==
  LET s == task[p]
  IN /\ s.pc = "awaitGetTeams"
     /\ task' = [task EXCEPT ![p] =
           IF ok THEN [s EXCEPT !.pc = "done", !.outcome = "returned",
                                !.teamsOut = RemoteTeams]
           ELSE GetIssuesCatchRethrows(s, "teams")]
     /\ UNCHANGED <<apiKey, now, clockSteps, calls, remotePages, services,
                    this, tabVars>>

\* The API key field of the settings tab changes: the services read the one
\* settings object, so every later ensureClient sees the new value.
SetApiKey(value) ==
  /\ value # apiKey
  /\ apiKey' = value
  /\ UNCHANGED <<now, clockSteps, calls, remotePages, services, this, task, tabVars>>

\* ------------------------------------------------------- the settings tab
serviceVars == <<apiKey, now, clockSteps, calls, remotePages, services, this, task>>

NamesOf(list) == { list[i].name : i \in 1..Len(list) }

RECURSIVE Decimal(_)
Decimal(n) ==
  IF n < 10 THEN << Digits[n + 1] >> ELSE Decimal(n \div 10) \o << Digits[(n % 10) + 1] >>

\* `integration-${index}`
IntegrationName(index) ==
  <<"i", "n", "t", "e", "g", "r", "a", "t", "i", "o", "n", "-">> \o Decimal(index)

\* createUniqueName: the first integration-<index>, counting from 1, that no
\* integration has; one of the first Len + 1 indices is free.
createUniqueName(list) ==
  IntegrationName(Min({ index \in 1..(Len(list) + 1) :
                         IntegrationName(index) \notin NamesOf(list) }))

\* What plugin.loadData() may hand back: each key present or missing.
Stored(hasIntegrations, list, hasDefault, name) ==
  [hasIntegrations |-> hasIntegrations, integrations |-> list,
   hasDefault |-> hasDefault, defaultIntegration |-> name]

\* loadSettings: the stored data over DEFAULT_SETTINGS, then the two repairs.
loadSettings(data) ==
  LET merged == [integrations |-> IF data.hasIntegrations THEN data.integrations
                                   ELSE DEFAULT_SETTINGS.integrations,
                 defaultIntegration |-> IF data.hasDefault THEN data.defaultIntegration
                                        ELSE DEFAULT_SETTINGS.defaultIntegration]
      list == IF Len(merged.integrations) = 0
                THEN << Integration(DefaultName, <<>>) >> ELSE merged.integrations
  IN [integrations |-> list,
      defaultIntegration |->
        IF merged.defaultIntegration = <<>> \/ merged.defaultIntegration \notin NamesOf(list)
          THEN list[1].name ELSE merged.defaultIntegration]

EmptyNameNotice == "Integration name cannot be empty"
UniqueNameNotice == "Integration names must be unique"

IsUsedByAnotherNever(list, value, index) == FALSE

\* integrations.some((i, idx) => i.name === value && idx !== index)
IsUsedByAnother(list, value, index) ==
  \E idx \in 1..Len(list) : list[idx].name = value /\ idx # index

\* The Add integration button: push, save, render again.
AddIntegration ==
  /\ Len(integrations) < MaxIntegrations
  /\ integrations' = Append(integrations, Integration(createUniqueName(integrations), <<>>))
  /\ tabNotice' = ""
  /\ UNCHANGED <<defaultIntegration, serviceVars>>

\* onChange of the name field of the integration at `index`.  The default is
\* compared with the name the integration has after the assignment.
RenameIntegration(index, typed) ==
  LET value == trim(typed)
      renamed == [integrations EXCEPT ![index].name = value]
  IN /\ index \in 1..Len(integrations)
     /\ IF value = <<>>
          THEN tabNotice' = EmptyNameNotice /\ UNCHANGED <<integrations, defaultIntegration>>
        ELSE IF IsUsedByAnother(integrations, value, index)
          THEN tabNotice' = UniqueNameNotice /\ UNCHANGED <<integrations, defaultIntegration>>
        ELSE /\ integrations' = renamed
             /\ defaultIntegration' =
                  IF defaultIntegration = renamed[index].name THEN value
                  ELSE defaultIntegration
             /\ tabNotice' = ""
     /\ UNCHANGED serviceVars

\* onChange of the API key field of the integration at `index`.
SetIntegrationKey(index, value) ==
  /\ index \in 1..Len(integrations)
  /\ integrations' = [integrations EXCEPT ![index].apiKey = value]
  /\ tabNotice' = ""
  /\ UNCHANGED <<defaultIntegration, serviceVars>>

\* The trash button of the integration at `index`: splice, repair the default,
\* save, render again.
DeleteIntegration(index) ==
  LET integration == integrations[index]
      rest == SubSeq(integrations, 1, index - 1)
                \o SubSeq(integrations, index + 1, Len(integrations))
  IN /\ index \in 1..Len(integrations)
     /\ integrations' = rest
     /\ defaultIntegration' =
          IF defaultIntegration = integration.name
            THEN IF Len(rest) = 0 \/ rest[1].name = <<>> THEN DefaultName ELSE rest[1].name
            ELSE defaultIntegration
     /\ tabNotice' = ""
     /\ UNCHANGED serviceVars

\* onChange of the default dropdown, whose options are the names in the list.
SetDefaultIntegration(value) ==
  /\ value \in NamesOf(integrations)
  /\ defaultIntegration' = value
  /\ tabNotice' = ""
  /\ UNCHANGED <<integrations, serviceVars>>

\* client.teams() answers while the organisation's teams are as in RemoteTeams.
TeamsResponse(p, ok) == TeamsListed(p, ok, RemoteTeams)

PageResponseStoresEachPage(p, kind) ==
  LET s == task[p]
      page == ServePage(remotePages, s.after)
      s1 == [s EXCEPT !.allStates = ConcatPage(@, page.nodes),
                      !.after = page.endCursor,
                      !.served = Append(@, page)]
  IN /\ s.pc = "awaitPage"
     /\ IF kind # "ok"
          THEN /\ task' = [task EXCEPT ![p] = WSThrow(s, "page")]
               /\ UNCHANGED services
          ELSE /\ services' = WithStatesCache(services, this,
                                 CacheEntry(workflowStatesCache, s1.allStates))
               /\ task' = [task EXCEPT ![p] =
                     IF page.hasNextPage THEN SendPage(s1) ELSE WSReturn(s1, s1.allStates)]
     /\ UNCHANGED <<apiKey, now, clockSteps, calls, remotePages, this, tabVars>>

\* rawRequest answers one page: the body of the while loop after the await, and
\* everything that follows when the loop ends.
PageResponse(p, kind) ==
  LET s == task[p]
      page == ServePage(remotePages, s.after)
      s1 == [s EXCEPT !.allStates = ConcatPage(@, page.nodes),
                      !.after = AdvanceCursor(@, page),
                      !.served = Append(@, page)]
  IN /\ s.pc = "awaitPage"
     /\ IF kind # "ok"
          THEN /\ task' = [task EXCEPT ![p] = WSThrow(s, "page")]
               /\ UNCHANGED services
          ELSE IF page.hasNextPage
            THEN /\ task' = [task EXCEPT ![p] = SendPage(s1)]
                 /\ UNCHANGED services
            ELSE /\ services' = WithStatesCache(services, this,
                                   CacheEntry(workflowStatesCache, s1.allStates))
                 /\ task' = [task EXCEPT ![p] = WSReturn(s1, s1.allStates)]
     /\ UNCHANGED <<apiKey, now, clockSteps, calls, remotePages, this, tabVars>>

\* client.issues(...) answers: the sort and the start of the logging loop.
IssuesResponse(p, ok, listing) ==
  LET s == task[p]
  IN /\ s.pc = "awaitIssues"
     /\ s.issuesReq.first = 0 \/ Len(listing) <= s.issuesReq.first
     /\ task' = [task EXCEPT ![p] =
           IF ~ok THEN GetIssuesCatch(s, "issues")
           ELSE AssigneeLoop([s EXCEPT !.listed = listing,
                                       !.nodes = SortIssues(listing, s.options.sorting)], 1)]
     /\ UNCHANGED <<apiKey, now, clockSteps, calls, remotePages, services,
                    this, tabVars>>

\* `await issue.assignee` answers.
AssigneeResponse(p, ok) ==
  LET s == task[p]
  IN /\ s.pc = "awaitAssignee"
     /\ task' = [task EXCEPT ![p] =
           IF ~ok THEN GetIssuesCatch(s, "assignee") ELSE AssigneeLoop(s, s.idx + 1)]
     /\ UNCHANGED <<apiKey, now, clockSteps, calls, remotePages, services,
                    this, tabVars>>

\* Lines 278-322: the fetch mode of the block, up to the first await.
FetchByMode(s) ==
  IF ~s.block.isObject THEN ProcessCatch(s)
  ELSE IF s.block.ids # <<>>
    THEN IdsLoop([s EXCEPT !.mode = "ids", !.rendered = <<>>], 1)
  ELSE IF IsNonEmptyString(IssueIdOf(s.block))
    THEN getIssueById([s EXCEPT !.mode = "id"], 0)
  ELSE IF ~apiKey
    THEN GetIssuesCatch([s EXCEPT !.mode = "list", !.outcome = "pending"], "apiKey")
  ELSE TeamStage([s EXCEPT !.mode = "list", !.outcome = "pending"])

\* Lines 265-272: the placeholder and the options of the block.
Parsed(parsed, env, po) ==
  [IdleTask EXCEPT !.op = "process", !.block = parsed, !.env = env,
                   !.options = po.options, !.console = log(env, po.errors),
                   !.ranges = RangesOf(parsed, env), !.rendered = <<Loading>>]

\* process(source, el, ctx) up to its first await.
ProcessBlock(p, parsed, env) ==
  /\ CanCall(p)
  /\ calls' = calls + 1
  /\ task' = [task EXCEPT ![p] =
                FetchByMode(Parsed(parsed, env, parseOptions(parsed, env)))]
  /\ UNCHANGED <<apiKey, now, clockSteps, remotePages, services, this, tabVars>>

\* `await getIssueById(id)` answers: the rest of getIssueById, then process.
\* Without an API key the answer is the error ensureClient threw.
IssueByIdResponse(p, kind) ==
  LET s == task[p]
      id == CurrentId(s)
      missing(notice) ==
        LET s1 == [s EXCEPT !.notices = Append(@, notice)]
        IN IF s.mode = "ids"
             THEN AfterIssue([s1 EXCEPT !.rendered = Append(@, NotFoundEntry(id))])
             ELSE Finish([s1 EXCEPT !.rendered = <<NotFoundEntry(id)>>])
  IN /\ s.pc = "awaitIssueById"
     /\ (kind = "nokey") = ~s.hasClient
     /\ task' = [task EXCEPT ![p] =
           IF kind = "found"
             THEN renderIssue([s EXCEPT !.found = TRUE,
                                        !.rendered = IF s.mode = "ids" THEN @ ELSE <<>>], id)
           ELSE IF kind = "absent" THEN missing(NoIssueNotice(id))
           ELSE missing(FailedIssueNotice(id))]
     /\ UNCHANGED <<apiKey, now, clockSteps, calls, remotePages, services,
                    this, tabVars>>

\* `await issue.state` answers and the description is rendered, or one of the
\* two fails and the catch of renderIssue adds its message.
RenderResponse(p, ok) ==
  LET s == task[p]
      last == Len(s.rendered)
  IN /\ s.pc = "awaitRender"
     /\ task' = [task EXCEPT ![p] =
           AfterIssue(
             IF ok THEN [s EXCEPT !.rendered[last].description = ~s.options.hideDescription]
             ELSE [s EXCEPT !.rendered = Append(@, RenderErrorEntry(s.rendered[last].id))])]
     /\ UNCHANGED <<apiKey, now, clockSteps, calls, remotePages, services,
                    this, tabVars>>

\* The organisation's workflow states come to fill n pages: what the remote
\* serves may differ from one request to the next.
RemoteChanges(n) ==
  /\ n # remotePages
  /\ remotePages' = n
  /\ UNCHANGED <<apiKey, now, clockSteps, calls, services, this, task, tabVars>>

\* The event loop turns to code of instance i: the next step runs a method, or
\* the continuation of a method, of that LinearService.
Dispatch(i) ==
  /\ i # this
  /\ this' = i
  /\ UNCHANGED <<apiKey, now, clockSteps, calls, remotePages, services, task, tabVars>>

\* Date.now() advances.
ClockSteps == {CACHE_TTL - 1, CACHE_TTL}

Tick(d) ==
  /\ clockSteps < MaxClockSteps
  /\ clockSteps' = clockSteps + 1
  /\ now' = now + d
  /\ UNCHANGED <<apiKey, calls, remotePages, services, this, task, tabVars>>

\* What the user types into a name field and into a key field.
TypedNames ==
  { <<>>, <<" ">>, <<"w">>, <<" ", "w", " ">>, DefaultName, IntegrationName(1),
    IntegrationName(2) }

TypedKeys == { <<>>, <<"k">> }

Next ==
  \/ \E p \in Procs, o \in OptionValues : CallGetIssues(p, o)
  \/ \E p \in Procs : CallGetWorkflowStates(p)
  \/ \E p \in Procs, ok \in BOOLEAN : TeamsResponse(p, ok)
  \/ \E p \in Procs, kind \in {"ok", "error", "nonodes"} : PageResponse(p, kind)
  \/ \E p \in Procs, ok \in BOOLEAN, listing \in IssueListings : IssuesResponse(p, ok, listing)
  \/ \E p \in Procs, ok \in BOOLEAN : AssigneeResponse(p, ok)
  \/ \E p \in Procs, parsed \in Blocks, env \in Envs : ProcessBlock(p, parsed, env)
  \/ \E p \in Procs, kind \in IssueAnswers : IssueByIdResponse(p, kind)
  \/ \E p \in Procs, ok \in BOOLEAN : RenderResponse(p, ok)
  \/ \E d \in ClockSteps : Tick(d)
  \/ \E n \in 1..MaxPages : RemoteChanges(n)
  \/ \E i \in Instances : Dispatch(i)
  \/ \E p \in Procs : CallGetTeams(p)
  \/ \E p \in Procs, ok \in BOOLEAN : GetTeamsResponse(p, ok)
  \/ \E value \in BOOLEAN : SetApiKey(value)
  \/ AddIntegration
  \/ \E index \in 1..MaxIntegrations, typed \in TypedNames : RenameIntegration(index, typed)
  \/ \E index \in 1..MaxIntegrations, value \in TypedKeys : SetIntegrationKey(index, value)
  \/ \E index \in 1..MaxIntegrations : DeleteIntegration(index)
  \/ \E value \in NamesOf(integrations) : SetDefaultIntegration(value)

Spec == Init /\ [][Next]_vars

\* Queries: getIssues calls with a team and a status that resolve or do not, while
\* the clock stands still (a filled cache stays valid).
QueryOptions ==
  { Opt(<<>>, <<>>, <<>>, NoDateFilter, NoSorting, 0),
    Opt(<<>>, <<"1", "1">>, <<>>, NoDateFilter, NoSorting, 0),
    Opt(<<"B", "b">>, <<"a", "-", "b">>, <<>>, NoDateFilter, NoSorting, 0),
    Opt(<<"a", "B">>, <<"1", "1">>, <<>>, NoDateFilter, NoSorting, 0),
    Opt(<<"A", "b">>, <<"a", "-", "b">>, <<"a", "1">>, [before |-> 0, after |-> 3],
        [field |-> "date", direction |-> "desc"], 0) }

NextQuery ==
  \/ \E p \in Procs, o \in QueryOptions : CallGetIssues(p, o)
  \/ \E p \in Procs, ok \in BOOLEAN : TeamsResponse(p, ok)
  \/ \E p \in Procs, kind \in {"ok", "error", "nonodes"} : PageResponse(p, kind)
  \/ \E p \in Procs, ok \in BOOLEAN, listing \in {<<>>, << Issue("I1", 2, TRUE) >>} : IssuesResponse(p, ok, listing)
  \/ \E p \in Procs, ok \in BOOLEAN : AssigneeResponse(p, ok)

SpecQuery == Init /\ [][NextQuery]_vars

\* The workflow-state cache: direct getWorkflowStates calls and status lookups,
\* with the clock advancing.
StatusOnlyOptions ==
  { Opt(<<>>, <<"a", "-", "b">>, <<>>, NoDateFilter, NoSorting, 0) }

NextCache ==
  \/ \E p \in Procs, o \in StatusOnlyOptions : CallGetIssues(p, o)
  \/ \E p \in Procs : CallGetWorkflowStates(p)
  \/ \E p \in Procs, kind \in {"ok", "error", "nonodes"} : PageResponse(p, kind)
  \/ \E p \in Procs, ok \in BOOLEAN : IssuesResponse(p, ok, <<>>)
  \/ \E d \in ClockSteps : Tick(d)

SpecCache == Init /\ [][NextCache]_vars

\* The team index: getIssues calls that only name a team.
TeamOnlyOptions ==
  { Opt(t, <<>>, <<>>, NoDateFilter, NoSorting, 0) : t \in TeamNameInputs \ {<<>>} }

NextTeams ==
  \/ \E p \in Procs, o \in TeamOnlyOptions : CallGetIssues(p, o)
  \/ \E p \in Procs, ok \in BOOLEAN : TeamsResponse(p, ok)
  \/ \E p \in Procs, ok \in BOOLEAN : IssuesResponse(p, ok, <<>>)

SpecTeams == Init /\ [][NextTeams]_vars

\* Status lookups: getIssues calls that name a status, with or without a team,
\* under several spellings of the status name.
StatusOptions ==
  { Opt(<<>>, <<"a", "-", "b">>, <<>>, NoDateFilter, NoSorting, 0),
    Opt(<<>>, <<"A", " ", "B">>, <<>>, NoDateFilter, NoSorting, 0),
    Opt(<<"A", "b">>, <<"a", "-", "b">>, <<>>, NoDateFilter, NoSorting, 0),
    Opt(<<"A", "b">>, <<"b", "1">>, <<>>, NoDateFilter, NoSorting, 0) }

NextStatus ==
  \/ \E p \in Procs, o \in StatusOptions : CallGetIssues(p, o)
  \/ \E p \in Procs, ok \in BOOLEAN : TeamsResponse(p, ok)
  \/ \E p \in Procs, kind \in {"ok", "error"} : PageResponse(p, kind)
  \/ \E p \in Procs, ok \in BOOLEAN : IssuesResponse(p, ok, <<>>)

SpecStatus == Init /\ [][NextStatus]_vars

\* Filter composition: getIssues calls in which each dimension of the options
\* is supplied in some and left out in others.
FilterOptions ==
  { Opt(<<>>, <<>>, <<>>, NoDateFilter, NoSorting, 0),
    Opt(<<"A", "b">>, <<>>, <<>>, [before |-> NoDate, after |-> 3], NoSorting, 1),
    Opt(<<>>, <<"a", "-", "b">>, <<"a", "1">>, NoDateFilter, NoSorting, 0),
    Opt(<<>>, <<>>, <<>>, [before |-> 7, after |-> NoDate],
        [field |-> "date", direction |-> "asc"], 0),
    Opt(<<"A", "b">>, <<"a", "-", "b">>, <<"a", "1">>, [before |-> 7, after |-> 3],
        NoSorting, 2) }

FilterListings ==
  { <<>>, << Issue("I1", 0, FALSE), Issue("I2", 2, FALSE) >> }

NextFilter ==
  \/ \E p \in Procs, o \in FilterOptions : CallGetIssues(p, o)
  \/ \E p \in Procs, ok \in BOOLEAN : TeamsResponse(p, ok)
  \/ \E p \in Procs, kind \in {"ok", "error", "nonodes"} : PageResponse(p, kind)
  \/ \E p \in Procs, ok \in BOOLEAN, listing \in FilterListings :
        IssuesResponse(p, ok, listing)

SpecFilter == Init /\ [][NextFilter]_vars

\* The sort: unfiltered getIssues calls that ask for an ascending sort, a
\* descending sort or none, answered with listings that hold equal and absent
\* due dates.
SortOptions ==
  { Opt(<<>>, <<>>, <<>>, NoDateFilter, NoSorting, 0),
    Opt(<<>>, <<>>, <<>>, NoDateFilter, [field |-> "date", direction |-> "asc"], 0),
    Opt(<<>>, <<>>, <<>>, NoDateFilter, [field |-> "date", direction |-> "desc"], 0) }

SortListings ==
  { <<>>,
    << Issue("I1", 0, FALSE), Issue("I2", 2, FALSE), Issue("I3", 1, FALSE) >>,
    << Issue("I1", 2, FALSE), Issue("I2", 0, FALSE), Issue("I3", 3, FALSE),
       Issue("I4", 2, FALSE), Issue("I5", 0, FALSE), Issue("I6", 1, FALSE) >> }

NextSort ==
  \/ \E p \in Procs, o \in SortOptions : CallGetIssues(p, o)
  \/ \E p \in Procs, ok \in BOOLEAN, listing \in SortListings :
        IssuesResponse(p, ok, listing)

SpecSort == Init /\ [][NextSort]_vars

\* Due-date blocks: one block at a time is processed, with every pair of date
\* tokens, in two time zones, at two instants, with debug mode on and off.
DateListings == { <<>>, << Issue("I1", 2, FALSE) >> }

NextDates ==
  \/ \E parsed \in DateBlocks, env \in Envs : ProcessBlock(1, parsed, env)
  \/ \E ok \in BOOLEAN, listing \in DateListings : IssuesResponse(1, ok, listing)
  \/ \E ok \in BOOLEAN : RenderResponse(1, ok)

SpecDates == Init /\ [][NextDates]_vars

\* Blocks that name issues by ID, at most two of them processed side by side.
IdProcs == {p \in Procs : p <= 2}

NextIds ==
  \/ \E p \in IdProcs, parsed \in IdBlocks : ProcessBlock(p, parsed, Env(FALSE, 250, 9))
  \/ \E p \in IdProcs, kind \in IssueAnswers : IssueByIdResponse(p, kind)
  \/ \E p \in IdProcs, ok \in BOOLEAN : RenderResponse(p, ok)

SpecIds == Init /\ [][NextIds]_vars

\* The team index while the organisation's teams change: lookups by team name
\* that are answered with the listing before or after the teams were renamed.
NextIndex ==
  \/ \E p \in Procs, o \in TeamOnlyOptions : CallGetIssues(p, o)
  \/ \E p \in Procs, ok \in BOOLEAN, teams \in TeamListings : TeamsListed(p, ok, teams)
  \/ \E p \in Procs, ok \in BOOLEAN : IssuesResponse(p, ok, <<>>)

SpecIndex == Init /\ [][NextIndex]_vars

\* Racing fetches: two callers' direct getWorkflowStates calls and status
\* lookups side by side, while the clock advances and the organisation's
\* states change.
RaceProcs == {p \in Procs : p <= 2}

NextRace ==
  \/ \E p \in RaceProcs, o \in StatusOnlyOptions : CallGetIssues(p, o)
  \/ \E p \in RaceProcs : CallGetWorkflowStates(p)
  \/ \E p \in RaceProcs, kind \in {"ok", "error", "nonodes"} : PageResponse(p, kind)
  \/ \E p \in RaceProcs, ok \in BOOLEAN : IssuesResponse(p, ok, <<>>)
  \/ \E d \in ClockSteps : Tick(d)
  \/ \E n \in 1..MaxPages : RemoteChanges(n)

SpecRace == Init /\ [][NextRace]_vars

\* Several instances: every caller is a code block with its own LinearProcessor
\* and LinearService (main.ts line 35), all with the same settings; a caller's
\* steps run on its own instance.
Home(p) == ((p - 1) % NumInstances) + 1

InstanceOptions ==
  { Opt(<<"A", "b">>, <<"a", "-", "b">>, <<>>, NoDateFilter, NoSorting, 0) }

NextInstances ==
  \/ \E p \in Procs, o \in InstanceOptions : this = Home(p) /\ CallGetIssues(p, o)
  \/ \E p \in Procs, ok \in BOOLEAN : this = Home(p) /\ TeamsResponse(p, ok)
  \/ \E p \in Procs, kind \in {"ok", "error"} : this = Home(p) /\ PageResponse(p, kind)
  \/ \E p \in Procs, ok \in BOOLEAN : this = Home(p) /\ IssuesResponse(p, ok, <<>>)
  \/ \E i \in Instances : Dispatch(i)

SpecInstances == Init /\ [][NextInstances]_vars

\* Fetches that must end: the calls of the racing fetches, where every page
\* request in flight is eventually answered (with a page or with an error).  A
\* fetch is served at most one page more than the remote can hold.
NextLive ==
  \/ \E p \in RaceProcs, o \in StatusOnlyOptions : CallGetIssues(p, o)
  \/ \E p \in RaceProcs : CallGetWorkflowStates(p)
  \/ \E p \in RaceProcs, kind \in {"ok", "error", "nonodes"} :
        Len(task[p].served) <= MaxPages /\ PageResponse(p, kind)
  \/ \E p \in RaceProcs, ok \in BOOLEAN : IssuesResponse(p, ok, <<>>)
  \/ \E n \in 1..MaxPages : RemoteChanges(n)

\* The request in flight of caller p is answered, in one of the three ways.
PageAnswered(p) ==
  /\ Len(task[p].served) <= MaxPages
  /\ \/ PageResponse(p, "error")
     \/ PageResponse(p, "ok")
     \/ PageResponse(p, "nonodes")

SpecLive ==
  Init /\ [][NextLive]_vars /\ \A p \in RaceProcs : WF_vars(PageAnswered(p))

\* Calls with and without a key: every public operation of the service, called
\* directly or by process, while the key of the settings is set and cleared.
KeyProcs == {p \in Procs : p <= 2}

KeyBlocks == { [EmptyBlock EXCEPT !.id = Str(<<"B", "-", "2">>)] }

NextKey ==
  \/ \E p \in KeyProcs, o \in StatusOnlyOptions : CallGetIssues(p, o)
  \/ \E p \in KeyProcs : CallGetWorkflowStates(p)
  \/ \E p \in KeyProcs : CallGetTeams(p)
  \/ \E p \in KeyProcs, parsed \in KeyBlocks : ProcessBlock(p, parsed, Env(FALSE, 250, 9))
  \/ \E p \in KeyProcs, ok \in BOOLEAN : GetTeamsResponse(p, ok)
  \/ \E p \in KeyProcs, kind \in {"ok", "error"} : PageResponse(p, kind)
  \/ \E p \in KeyProcs, ok \in BOOLEAN : IssuesResponse(p, ok, <<>>)
  \/ \E p \in KeyProcs, kind \in IssueAnswers : IssueByIdResponse(p, kind)
  \/ \E p \in KeyProcs, ok \in BOOLEAN : RenderResponse(p, ok)
  \/ \E value \in BOOLEAN : SetApiKey(value)

SpecKey == Init /\ [][NextKey]_vars

\* The fetch modes of process: blocks with an ids list, with id or issueId, with
\* neither, and a block that is no mapping, up to the end of each invocation.
ModeBlocks ==
  IdBlocks \cup { EmptyBlock, NullBlock, [EmptyBlock EXCEPT !.id = NotAString] }

ModeListings == { <<>>, << Issue("I1", 2, FALSE) >> }

NextModes ==
  \/ \E p \in IdProcs, parsed \in ModeBlocks : ProcessBlock(p, parsed, Env(FALSE, 250, 9))
  \/ \E p \in IdProcs, kind \in IssueAnswers : IssueByIdResponse(p, kind)
  \/ \E p \in IdProcs, ok \in BOOLEAN : RenderResponse(p, ok)
  \/ \E p \in IdProcs, ok \in BOOLEAN, listing \in ModeListings :
        IssuesResponse(p, ok, listing)

SpecModes == Init /\ [][NextModes]_vars

\* The settings tab on its own, opened on the settings loadSettings made of
\* what was stored: nothing, a list without a default, a default that names
\* an integration, a default that names none, and an empty list.
StoredData ==
  { Stored(FALSE, <<>>, FALSE, <<>>),
    Stored(TRUE, << Integration(<<"w">>, <<"k">>) >>, FALSE, <<>>),
    Stored(TRUE, << Integration(DefaultName, <<>>), Integration(IntegrationName(1), <<"k">>) >>,
           TRUE, IntegrationName(1)),
    Stored(TRUE, << Integration(IntegrationName(1), <<>>) >>, TRUE, <<"g", "o", "n", "e">>),
    Stored(TRUE, <<>>, TRUE, <<"w">>) }

InitTab ==
  /\ apiKey = FALSE /\ now = 0 /\ clockSteps = 0 /\ calls = 0 /\ remotePages = 1
  /\ services = [i \in Instances |-> NewService]
  /\ this = 1
  /\ task = [p \in Procs |-> IdleTask]
  /\ \E data \in StoredData :
        /\ integrations = loadSettings(data).integrations
        /\ defaultIntegration = loadSettings(data).defaultIntegration
  /\ tabNotice = ""

NextTab ==
  \/ AddIntegration
  \/ \E index \in 1..MaxIntegrations, typed \in TypedNames : RenameIntegration(index, typed)
  \/ \E index \in 1..MaxIntegrations, value \in TypedKeys : SetIntegrationKey(index, value)
  \/ \E index \in 1..MaxIntegrations : DeleteIntegration(index)
  \/ \E value \in NamesOf(integrations) : SetDefaultIntegration(value)

SpecTab == InitTab /\ [][NextTab]_vars

\* ======================================================== properties

Kinds(s) == { s.reqs[i].kind : i \in 1..Len(s.reqs) }

\* The status lookup of this invocation has ended without a state.
StatusUnresolved(s) ==
  /\ s.options.status # <<>>
  /\ s.wsOutcome \in {"returned", "threw"}
  /\ s.stateId = ""

\* C1: getIssues never throws: every invocation that ends, ends by returning, and
\* whenever the API key is missing or a remote call of the invocation has failed
\* it has returned the empty sequence and emitted a notice.
C1_GetIssuesNeverThrows ==
  \A p \in Procs : task[p].op = "getIssues" =>
    /\ task[p].outcome # "threw"
    /\ task[p].pc = "done" => task[p].outcome = "returned"
    /\ task[p].failed # {} =>
         /\ task[p].pc = "done"
         /\ task[p].issuesOut = <<>>
         /\ Len(task[p].notices) >= 1

C1_Witness ==
  \E p, q \in Procs :
    /\ task[p].op = "getIssues" /\ task[p].pc = "done" /\ task[p].failed = {"issues"}
    /\ task[q].op = "getIssues" /\ task[q].pc = "done" /\ task[q].failed = {"page"}
    /\ task[p].issuesOut = <<>> /\ task[q].issuesOut = <<>>

\* C2: abort on miss: an invocation whose team or status did not resolve has
\* returned the empty sequence without sending an issue listing (and, for the
\* team, without sending a workflow-state request), and every issue listing that
\* is sent carries a clause for each of team and status that was supplied.
C2_AbortOnMiss ==
  \A p \in Procs : task[p].op = "getIssues" =>
    LET s == task[p]
    IN /\ s.teamOutcome = "null" =>
            /\ s.pc = "done" /\ s.issuesOut = <<>>
            /\ ~s.issuesReq.sent
            /\ Kinds(s) \cap {"issues", "page"} = {}
       /\ StatusUnresolved(s) =>
            /\ s.pc = "done" /\ s.issuesOut = <<>>
            /\ ~s.issuesReq.sent
            /\ "issues" \notin Kinds(s)
       /\ s.issuesReq.sent =>
            /\ s.options.teamName # <<>> => "team" \in s.issuesReq.keys
            /\ s.options.status # <<>> => "state" \in s.issuesReq.keys

C2_Witness ==
  \E p, q \in Procs :
    /\ task[p].teamOutcome = "null" /\ task[p].options.status # <<>>
    /\ task[p].pc = "done"
    /\ StatusUnresolved(task[q]) /\ task[q].wsOutcome = "returned"
    /\ task[q].teamOutcome = "found" /\ task[q].pc = "done"

\* C3: a team that is not found yields the empty sequence and the notice
\* Team "<name as supplied>" not found; a status that is not found yields the
\* notice Status "<status as supplied>" not found, followed by
\* " for the specified team" exactly when a team scope was applied.
C3_NotFoundDiagnostics ==
  \A p \in Procs : task[p].op = "getIssues" =>
    LET s == task[p]
    IN /\ s.teamOutcome = "null" =>
            /\ s.issuesOut = <<>>
            /\ s.notices = << [prefix |-> "Team \"", name |-> s.options.teamName,
                               suffix |-> "\" not found"] >>
       /\ StatusUnresolved(s) =>
            /\ s.issuesOut = <<>>
            /\ Len(s.notices) = 1
            /\ s.notices[1].prefix = "Status \""
            /\ s.notices[1].name = s.options.status
            /\ s.notices[1].suffix =
                 IF s.options.teamName # <<>>
                   THEN "\" not found for the specified team"
                   ELSE "\" not found"

C3_Witness ==
  \E p, q \in Procs :
    /\ task[p].teamOutcome = "null" /\ "teams" \notin task[p].failed
    /\ task[p].options.teamName = <<"B", "b">>
    /\ task[p].notices[1].name = <<"B", "b">>
    /\ StatusUnresolved(task[q]) /\ task[q].failed = {}
    /\ task[q].options.teamName = <<"a", "B">>
    /\ task[q].notices[1].suffix = "\" not found for the specified team"

\* ------------------------------------------------ workflow-state cache
IsPageRequest(r) == r.kind = "page"

PageReqs(s) == SelectSeq(s.reqs, IsPageRequest)

RECURSIVE Flatten(_)
Flatten(pages) ==
  IF pages = <<>> THEN <<>>
  ELSE Flatten(SubSeq(pages, 1, Len(pages) - 1)) \o pages[Len(pages)].nodes

RECURSIVE FirstPages(_)
FirstPages(n) == IF n = 0 THEN <<>> ELSE FirstPages(n - 1) \o RemotePageNodes[n]

RECURSIVE SumOfPageSizes(_)
SumOfPageSizes(n) == IF n = 0 THEN 0 ELSE SumOfPageSizes(n - 1) + Len(RemotePageNodes[n])

\* The step is one in which caller p enters getWorkflowStates.
Enters(p) ==
  /\ task'[p] # task[p]
  /\ task'[p].wsOutcome # "none"
  /\ task[p].pc \in {"idle", "done"} \/ task[p].wsOutcome = "none"

\* The step delivers a page to caller p and ends its fetch successfully.
Completes(p) ==
  /\ task[p].pc = "awaitPage"
  /\ task'[p].wsOutcome = "returned"
  /\ "page" \notin task'[p].failed

CursorlessRequests(s) ==
  Cardinality({i \in 1..Len(PageReqs(s)) : PageReqs(s)[i].after = NoCursor})

\* C4: a getWorkflowStates call that starts less than 5 minutes after the
\* completion time stamped on the stored entry sends no page request, returns
\* the stored sequence and leaves the entry as it is.
C4_SecondCallUsesCache ==
  [][\A p \in Procs :
       (/\ Enters(p)
        /\ ~workflowStatesCache.isNull
        /\ now - workflowStatesCache.timestamp < 5 * 60 * 1000) =>
         /\ task'[p].wsOutcome = "returned"
         /\ task'[p].wsValue = workflowStatesCache.states
         /\ PageReqs(task'[p]) = <<>>
         /\ workflowStatesCache' = workflowStatesCache]_vars

\* An earlier call q fetched and stored the entry; call p started one
\* millisecond short of 5 minutes later and was answered from it.
C4_Witness ==
  \E p, q \in Procs :
    /\ p # q
    /\ task[q].wsOutcome = "returned" /\ Len(task[q].served) = 2
    /\ task[p].ageAtStart = 5 * 60 * 1000 - 1
    /\ task[p].wsOutcome = "returned"
    /\ PageReqs(task[p]) = <<>>
    /\ Len(task[p].wsValue) = 4 /\ task[p].wsValue = task[q].wsValue

\* C5: a call that finds an entry aged 5 minutes or more is not answered from
\* it: it begins a paginated fetch, begins no second one, and when its fetch
\* succeeds it returns exactly the pages it was served and the cache entry
\* becomes exactly those states with the completion time as timestamp.
C5_StaleEntryIsReplaced ==
  [][\A p \in Procs :
       /\ (/\ Enters(p)
           /\ ~workflowStatesCache.isNull
           /\ now - workflowStatesCache.timestamp >= 5 * 60 * 1000) =>
            /\ task'[p].wsOutcome = "pending"
            /\ PageReqs(task'[p]) = << [kind |-> "page", after |-> NoCursor] >>
       /\ ~Enters(p) => CursorlessRequests(task'[p]) = CursorlessRequests(task[p])
       /\ Completes(p) =>
            /\ task'[p].wsValue = Flatten(task'[p].served)
            /\ workflowStatesCache' =
                 [isNull |-> FALSE, timestamp |-> now,
                  states |-> Flatten(task'[p].served)]]_vars

C5_Witness ==
  \E p \in Procs :
    /\ task[p].ageAtStart = 5 * 60 * 1000
    /\ task[p].wsOutcome = "returned"
    /\ Len(task[p].served) = 2
    /\ workflowStatesCache.timestamp = now
    /\ workflowStatesCache.states = Flatten(task[p].served)
    /\ Len(workflowStatesCache.states) = 4

\* C6: the step in which a page request of a fetch fails leaves the cache entry
\* unchanged and ends the call in an error (no state sequence, no resolved
\* status), and the cache entry changes in no step other than the successful
\* completion of a fetch, so a failed fetch has not touched it on earlier pages.
C6_FailedFetchLeavesCache ==
  [][/\ \A p \in Procs :
          (task[p].pc = "awaitPage" /\ "page" \in task'[p].failed) =>
            /\ workflowStatesCache' = workflowStatesCache
            /\ task'[p].wsOutcome = "threw"
            /\ task'[p].wsValue = <<>>
            /\ task'[p].stateId = ""
            /\ task'[p].op = "getIssues" =>
                 /\ task'[p].pc = "done" /\ task'[p].issuesOut = <<>>
                 /\ ~task'[p].issuesReq.sent
     /\ workflowStatesCache' # workflowStatesCache =>
          \E p \in Procs : Completes(p)]_vars

\* The fetch found a stale entry, was served its first page and failed on the
\* second; the stale entry is still there.
C6_Witness ==
  \E p \in Procs :
    /\ "page" \in task[p].failed
    /\ task[p].ageAtStart >= 5 * 60 * 1000
    /\ Len(task[p].served) = 1
    /\ task[p].wsOutcome = "threw"
    /\ ~workflowStatesCache.isNull
    /\ now - workflowStatesCache.timestamp >= 5 * 60 * 1000

\* A call enters getWorkflowStates on an empty or stale cache while another
\* call is suspended in a page request.
EntersDuringFetch(p) ==
  /\ Enters(p)
  /\ \E q \in Procs \ {p} : task[q].pc = "awaitPage"
  /\ \/ workflowStatesCache.isNull
     \/ now - workflowStatesCache.timestamp >= 5 * 60 * 1000

\* C7 as stated: a call that starts on an empty or stale cache while another
\* call's fetch is in flight sends no page request of its own.
C7_InFlightFetchIsShared ==
  [][\A p \in Procs : EntersDuringFetch(p) => PageReqs(task'[p]) = <<>>]_vars

\* C7 amended: fetches are not coalesced.  A call that starts on an empty or
\* stale cache while another call's fetch is in flight begins its own paginated
\* fetch with a cursorless first request, and what a call returns from a fetch
\* is the concatenation of the pages served to that call.
C7_OverlappingCallsFetchSeparately ==
  [][\A p \in Procs :
       /\ (EntersDuringFetch(p) /\ apiKey) =>
            /\ task'[p].pc = "awaitPage"
            /\ PageReqs(task'[p]) = << [kind |-> "page", after |-> NoCursor] >>
       /\ Completes(p) =>
            /\ Len(PageReqs(task'[p])) = Len(task'[p].served)
            /\ task'[p].wsValue = Flatten(task'[p].served)]_vars

\* Two fetches are in flight at once, each with its own second page requested.
C7_Witness ==
  \E p, q \in Procs :
    /\ p # q
    /\ task[p].pc = "awaitPage" /\ task[q].pc = "awaitPage"
    /\ Len(PageReqs(task[p])) = 2 /\ Len(PageReqs(task[q])) = 2

\* C8: a successful fetch from a remote that serves N pages returns the nodes of
\* pages 1..N in that order, as many as the page sizes add up to, and every
\* cache entry is that sequence.
C8_PagesConcatenated ==
  /\ \A p \in Procs :
       LET s == task[p]
       IN (s.wsOutcome = "returned" /\ s.served # <<>>) =>
            /\ Len(s.served) = remotePages
            /\ \A i \in 1..remotePages : s.served[i].hasNextPage <=> i < remotePages
            /\ s.wsValue = FirstPages(remotePages)
            /\ Len(s.wsValue) = SumOfPageSizes(remotePages)
  /\ ~workflowStatesCache.isNull =>
       workflowStatesCache.states = FirstPages(remotePages)

C8_Witness ==
  \E p \in Procs :
    /\ remotePages = 2
    /\ task[p].wsOutcome = "returned" /\ Len(task[p].served) = 2
    /\ Len(task[p].wsValue) = 4
    /\ workflowStatesCache.states = task[p].wsValue

\* C9: in the page requests of one fetch exactly the first carries no cursor,
\* request i+1 carries the endCursor of the i-th page served, and a page with
\* hasNextPage = false is followed by no request.
C9_CursorThreading ==
  \A p \in Procs :
    LET r == PageReqs(task[p])
        sv == task[p].served
    IN /\ Len(r) <= Len(sv) + 1
       /\ \A i \in 1..Len(r) : (r[i].after = NoCursor) <=> (i = 1)
       /\ \A i \in 2..Len(r) : r[i].after = sv[i - 1].endCursor
       /\ \A i \in 1..Len(sv) : ~sv[i].hasNextPage => Len(r) <= i

C9_Witness ==
  \E p \in Procs :
    /\ Len(PageReqs(task[p])) = 2
    /\ PageReqs(task[p])[2].after = "c1"
    /\ Len(task[p].served) = 2
    /\ task[p].wsOutcome = "returned"

\* ------------------------------------------------------------ team index
\* The two names differ at most in the case of their letters.
SameIgnoringCase(a, b) ==
  /\ Len(a) = Len(b)
  /\ \A i \in 1..Len(a) : a[i] = b[i] \/ {a[i], b[i]} \in {{"A", "a"}, {"B", "b"}}

ListedAs(name) ==
  { i \in 1..Len(RemoteTeams) : SameIgnoringCase(RemoteTeams[i].name, name) }

ListedKeys == { toLowerCase(RemoteTeams[i].name) : i \in 1..Len(RemoteTeams) }

C12_TeamFetchFailureIsDistinct ==
  \A p \in Procs :
    "teams" \in task[p].failed =>
      /\ task[p].teamOutcome # "null"
      /\ \A i \in 1..Len(task[p].notices) : task[p].notices[i].prefix # "Team \""

\* ---------------------------------------------------- status resolution
\* C13: a status lookup whose workflow-state fetch failed does not end like a
\* status name that matches no state: the user is not shown the
\* Status "<name>" not found notice.
C13_StateFetchFailureIsDistinct ==
  \A p \in Procs :
    (task[p].op = "getIssues" /\ "page" \in task[p].failed) =>
      \A i \in 1..Len(task[p].notices) : task[p].notices[i].prefix # "Status \""

\* Lowercase, then remove every character outside a-z and 0-9.
KeptAfterLowercasing(c) == c \in {"a", "b", "1", "A", "B"}

Normalized(name) ==
  LET kept == SelectSeq(name, KeptAfterLowercasing)
  IN [i \in 1..Len(kept) |->
        IF kept[i] = "A" THEN "a" ELSE IF kept[i] = "B" THEN "b" ELSE kept[i]]

\* The positions of the sequence whose state satisfies the match rule.
Candidates(states, statusName, teamId) ==
  { i \in 1..Len(states) :
      /\ Normalized(states[i].name) = Normalized(statusName)
      /\ teamId = "" \/ states[i].team = NoTeam \/ states[i].team = teamId }

\* The status lookup of this invocation was answered with a state sequence.
StatusAnswered(s) ==
  s.op = "getIssues" /\ s.options.status # <<>> /\ s.wsOutcome = "returned"

\* C14: a status lookup that was answered with a state sequence returns the
\* first state of the sequence whose normalized name equals the normalized
\* query and whose team is absent or the given team (any state without a team
\* ID), and returns not-found exactly when no state of the sequence is such.
C14_FirstMatchWins ==
  \A p \in Procs :
    LET s == task[p]
        c == Candidates(s.wsValue, s.options.status, s.teamId)
    IN StatusAnswered(s) =>
         /\ c = {} <=> s.stateId = ""
         /\ c # {} => \E i \in c : /\ s.stateId = s.wsValue[i].id
                                   /\ \A j \in c : i <= j

\* One lookup returned the first of two candidates, another found none.
C14_Witness ==
  \E p, q \in Procs :
    /\ StatusAnswered(task[p]) /\ task[p].teamId = ""
    /\ Cardinality(Candidates(task[p].wsValue, task[p].options.status, "")) >= 2
    /\ task[p].stateId = "S1"
    /\ StatusAnswered(task[q]) /\ task[q].stateId = ""
    /\ Len(task[q].wsValue) = 2 /\ task[q].pc = "done"

\* C15: the state a team-scoped lookup returns has no team or the given team.
C15_NeverAnotherTeamsState ==
  \A p \in Procs :
    LET s == task[p]
    IN (StatusAnswered(s) /\ s.teamId # "" /\ s.stateId # "") =>
         /\ \E i \in 1..Len(s.wsValue) : s.wsValue[i].id = s.stateId
         /\ \A i \in 1..Len(s.wsValue) :
              s.wsValue[i].id = s.stateId => s.wsValue[i].team \in {NoTeam, s.teamId}

\* The lookup for team T1 returned S2 although S1, of team T2 and with the same
\* normalized name, comes first in the sequence.
C15_Witness ==
  \E p \in Procs :
    /\ StatusAnswered(task[p]) /\ task[p].teamId = "T1" /\ task[p].stateId = "S2"
    /\ task[p].wsValue[1].id = "S1" /\ task[p].wsValue[1].team = "T2"
    /\ Normalized(task[p].wsValue[1].name) = Normalized(task[p].options.status)

\* C16: two lookups whose query names have the same normalization, against the
\* same state sequence and team ID, return the same state or both none; the
\* code's normalization is lowercase-then-strip and applying it twice changes
\* nothing.
C16_NormalizationDecides ==
  \A p \in Procs :
    LET s == task[p]
    IN StatusAnswered(s) =>
         /\ \A q \in Procs \ {p} :
              (/\ StatusAnswered(task[q])
               /\ s.teamId = task[q].teamId
               /\ s.wsValue = task[q].wsValue
               /\ Normalized(s.options.status) = Normalized(task[q].options.status)) =>
                s.stateId = task[q].stateId
         /\ \A n \in {s.options.status} \cup {s.wsValue[i].name : i \in 1..Len(s.wsValue)} :
              /\ normalizeStateName(n) = Normalized(n)
              /\ normalizeStateName(normalizeStateName(n)) = normalizeStateName(n)

\* Two spellings of one status resolved to the same state.
C16_Witness ==
  \E p, q \in Procs :
    /\ StatusAnswered(task[p]) /\ StatusAnswered(task[q])
    /\ task[p].options.status # task[q].options.status
    /\ Normalized(task[p].options.status) = Normalized(task[q].options.status)
    /\ task[p].teamId = task[q].teamId
    /\ task[p].stateId = "S1" /\ task[q].stateId = "S1"

\* ------------------------------------------------------- the query
Rank(kind) ==
  CASE kind = "teams" -> 1
    [] kind = "page" -> 2
    [] kind = "issues" -> 3
    [] kind = "assignee" -> 4

CountOf(s, kind) == Cardinality({i \in 1..Len(s.reqs) : s.reqs[i].kind = kind})

\* C17: the remote calls of one getIssues invocation are sent in the order
\* team listing, workflow-state pages, issue listing (with one team listing and
\* one issue listing at most); the status lookup has started only when the team
\* was resolved, and returns a state admissible for the resolved team ID; the
\* issue listing is sent only when team and status are resolved; sorted nodes
\* exist only after the issue listing was sent.
C17_FixedOrder ==
  \A p \in Procs : task[p].op = "getIssues" =>
    LET s == task[p]
    IN /\ \A i, j \in 1..Len(s.reqs) :
            i < j => Rank(s.reqs[i].kind) <= Rank(s.reqs[j].kind)
       /\ CountOf(s, "teams") <= 1 /\ CountOf(s, "issues") <= 1
       /\ (s.wsOutcome # "none" /\ s.options.teamName # <<>>) =>
            /\ s.pc # "awaitTeams"
            /\ s.teamOutcome \in {"found", "cached"}
            /\ \E i \in ListedAs(s.options.teamName) : s.teamId = RemoteTeams[i].id
       /\ s.stateId # "" =>
            \E i \in Candidates(s.wsValue, s.options.status, s.teamId) :
              s.wsValue[i].id = s.stateId
       /\ s.issuesReq.sent =>
            /\ "issues" \in Kinds(s)
            /\ s.pc \notin {"awaitTeams", "awaitPage"}
            /\ s.options.teamName # <<>> => s.teamId # ""
            /\ s.options.status # <<>> => s.wsOutcome = "returned" /\ s.stateId # ""
       /\ "issues" \in Kinds(s) => s.issuesReq.sent
       /\ s.nodes # <<>> => "issues" \in Kinds(s)

\* One invocation sent a team listing, two state pages, the issue listing and
\* then awaited an assignee, in this order.
C17_Witness ==
  \E p \in Procs :
    /\ task[p].op = "getIssues" /\ task[p].pc = "done"
    /\ [i \in 1..Len(task[p].reqs) |-> task[p].reqs[i].kind] =
         <<"teams", "page", "page", "issues", "assignee">>
    /\ task[p].teamId = "T1" /\ task[p].stateId = "S2"
    /\ Len(task[p].issuesOut) = 1

\* A due-date bound was supplied: present and not the empty string.
DateSupplied(v) == v # NoDate /\ v # 0

\* C18: an issue-listing request has a team clause iff a team name was
\* supplied, a state clause iff a status was supplied, an assignee clause (on
\* the supplied email) iff an email was supplied, and a due-date clause iff
\* after or before was supplied, with gte = after and lt = before for the bounds
\* supplied; with nothing supplied the filter is absent.  Supplied means a
\* non-empty value in every dimension.
C18_ClausePerSuppliedDimension ==
  \A p \in Procs :
    LET o == task[p].options
        r == task[p].issuesReq
    IN r.sent =>
         /\ r.keys \subseteq {"team", "state", "assignee", "dueDate"}
         /\ "team" \in r.keys <=> o.teamName # <<>>
         /\ "state" \in r.keys <=> o.status # <<>>
         /\ "assignee" \in r.keys <=> o.assigneeEmail # <<>>
         /\ "assignee" \in r.keys => r.assignee = o.assigneeEmail
         /\ "dueDate" \in r.keys <=>
              (DateSupplied(o.dueDateFilter.after) \/ DateSupplied(o.dueDateFilter.before))
         /\ "gte" \in r.dueKeys <=> DateSupplied(o.dueDateFilter.after)
         /\ "lt" \in r.dueKeys <=> DateSupplied(o.dueDateFilter.before)
         /\ "gte" \in r.dueKeys => r.gte = o.dueDateFilter.after
         /\ "lt" \in r.dueKeys => r.lt = o.dueDateFilter.before
         /\ (/\ o.teamName = <<>> /\ o.status = <<>> /\ o.assigneeEmail = <<>>
             /\ o.dueDateFilter = NoDateFilter) => r.keys = {}

\* One request carried only a due-date clause with an upper bound, another all
\* four clauses.
C18_Witness ==
  \E p, q \in Procs :
    /\ task[p].issuesReq.sent
    /\ task[p].issuesReq.keys = {"dueDate"} /\ task[p].issuesReq.dueKeys = {"lt"}
    /\ task[q].issuesReq.sent
    /\ task[q].issuesReq.keys = {"team", "state", "assignee", "dueDate"}
    /\ task[q].issuesReq.dueKeys = {"gte", "lt"}

\* C19: when team and status are both supplied and the issue listing is sent,
\* its team clause carries the ID of the listed team whose name matched and its
\* state clause the ID of the first state admissible for that team; what the
\* invocation returns are the issues the remote listed for that request.
C19_FiltersOnResolvedIds ==
  \A p \in Procs :
    LET s == task[p]
        r == s.issuesReq
    IN (r.sent /\ s.options.teamName # <<>> /\ s.options.status # <<>>) =>
         /\ \E i \in ListedAs(s.options.teamName) : r.team = RemoteTeams[i].id
         /\ \E i \in Candidates(s.wsValue, s.options.status, r.team) :
              /\ r.state = s.wsValue[i].id
              /\ \A j \in Candidates(s.wsValue, s.options.status, r.team) : i <= j
         /\ {"team", "state"} \subseteq r.keys
         /\ { s.issuesOut[i] : i \in 1..Len(s.issuesOut) } \subseteq
              { s.listed[i] : i \in 1..Len(s.listed) }

C19_Witness ==
  \E p \in Procs :
    /\ task[p].options.teamName = <<"A", "b">>
    /\ task[p].options.status = <<"a", "-", "b">>
    /\ task[p].issuesReq.sent
    /\ task[p].issuesReq.team = "T1" /\ task[p].issuesReq.state = "S2"
    /\ task[p].pc = "done" /\ Len(task[p].issuesOut) = 2

Returned(s) ==
  s.op = "getIssues" /\ s.outcome = "returned" /\ s.issuesReq.sent /\ s.failed = {}

SortRequested(s) == s.options.sorting.field = "date"

\* C21: sorting never changes which issues are returned.  When a sort is
\* requested the returned sequence is a permutation of the sequence the remote
\* listed (same length, every listed issue exactly once); when no sort is
\* requested it is the listed sequence itself.
C21_SortKeepsTheIssues ==
  \A p \in Procs :
    LET s == task[p]
    IN Returned(s) =>
         /\ Len(s.issuesOut) = Len(s.listed)
         /\ \A i \in 1..Len(s.listed) :
              Cardinality({j \in 1..Len(s.issuesOut) : s.issuesOut[j] = s.listed[i]})
                = Cardinality({j \in 1..Len(s.listed) : s.listed[j] = s.listed[i]})
         /\ ~SortRequested(s) => s.issuesOut = s.listed

\* A sort that moved issues, and an unsorted result of a listing that a sort
\* would have reordered.
C21_Witness ==
  /\ \E p \in Procs :
       /\ Returned(task[p]) /\ SortRequested(task[p])
       /\ Len(task[p].listed) = 6 /\ task[p].issuesOut # task[p].listed
  /\ \E p \in Procs :
       /\ Returned(task[p]) /\ ~SortRequested(task[p])
       /\ Len(task[p].listed) = 6 /\ task[p].issuesOut = task[p].listed

\* ------------------------------------------------------------------ C22
Sorted(s) == Returned(s) /\ SortRequested(s)

Undated(issue) == issue.dueDate = 0

\* C22: after a requested sort, ascending or descending, no issue without a
\* due date stands before an issue with a due date.
C22_UndatedLast ==
  \A p \in Procs :
    LET out == task[p].issuesOut
    IN Sorted(task[p]) =>
         \A i, j \in 1..Len(out) : (i < j /\ Undated(out[i])) => Undated(out[j])

\* Both directions sorted a listing in which an undated issue came first.
C22_Witness ==
  \A dir \in {"asc", "desc"} :
    \E p \in Procs :
      /\ Sorted(task[p]) /\ task[p].options.sorting.direction = dir
      /\ Len(task[p].listed) = 3
      /\ Undated(task[p].listed[1]) /\ Undated(task[p].issuesOut[3])

\* ------------------------------------------------------------------ C23
\* C23: among the issues with a due date, an ascending sort yields
\* non-decreasing due dates and a descending sort non-increasing ones.
C23_DatedInDirection ==
  \A p \in Procs :
    LET out == task[p].issuesOut
        dir == task[p].options.sorting.direction
    IN Sorted(task[p]) =>
         \A i, j \in 1..Len(out) :
           (i < j /\ ~Undated(out[i]) /\ ~Undated(out[j])) =>
             /\ dir = "asc" => out[i].dueDate <= out[j].dueDate
             /\ dir = "desc" => out[i].dueDate >= out[j].dueDate

\* The six-issue listing sorted ascending (earliest first) and descending
\* (latest first).
C23_Witness ==
  /\ \E p \in Procs :
       /\ Sorted(task[p]) /\ task[p].options.sorting.direction = "asc"
       /\ Len(task[p].issuesOut) = 6
       /\ task[p].issuesOut[1].dueDate = 1 /\ task[p].issuesOut[4].dueDate = 3
  /\ \E p \in Procs :
       /\ Sorted(task[p]) /\ task[p].options.sorting.direction = "desc"
       /\ Len(task[p].issuesOut) = 6
       /\ task[p].issuesOut[1].dueDate = 3 /\ task[p].issuesOut[4].dueDate = 1

\* ------------------------------------------------------------------ C24
PositionIn(seq, x) == CHOOSE k \in 1..Len(seq) : seq[k] = x

\* C24: the sort is stable.  Two listed issues with equal sort keys (the same
\* due date, or both undated) keep their listing order in the result.
C24_StableSort ==
  \A p \in Procs :
    LET s == task[p]
    IN Sorted(s) =>
         \A i, j \in 1..Len(s.listed) :
           (i < j /\ s.listed[i].dueDate = s.listed[j].dueDate) =>
             PositionIn(s.issuesOut, s.listed[i]) < PositionIn(s.issuesOut, s.listed[j])

\* A sort in each direction moved the issues of a listing that holds two issues
\* due on the same day and two undated ones.
C24_Witness ==
  \A dir \in {"asc", "desc"} :
    \E p \in Procs :
      LET s == task[p]
      IN /\ Sorted(s) /\ s.options.sorting.direction = dir
         /\ s.issuesOut # s.listed
         /\ \E i, j \in 1..Len(s.listed) :
              i < j /\ s.listed[i].dueDate = s.listed[j].dueDate /\ ~Undated(s.listed[i])
         /\ \E i, j \in 1..Len(s.listed) :
              i < j /\ Undated(s.listed[i]) /\ Undated(s.listed[j])

\* ------------------------------------------------------------------ C25
\* A process call whose list query was sent.
ListSent(s) == s.op = "process" /\ s.mode = "list" /\ s.issuesReq.sent

AfterWindow(s) == TokenRange(s.block.dueAfter, s.env)
BeforeWindow(s) == TokenRange(s.block.dueBefore, s.env)

\* C25: the dueAfter token gives the inclusive lower bound (gte), the start of
\* its day window, and the dueBefore token gives the exclusive upper bound
\* (lt), the start of its day window.  A bound of the request is never the end
\* of a window; a token that resolves to a window, beside a sibling that is
\* absent or resolves too, gives its bound; and the two tokens naming the same
\* day give gte = lt, an empty interval.
C25_BoundsAreWindowStarts ==
  \A p \in Procs :
    LET s == task[p]
        r == s.issuesReq
        a == AfterWindow(s)
        b == BeforeWindow(s)
    IN ListSent(s) =>
         /\ "gte" \in r.dueKeys => a.kind = "range" /\ r.gte = a.start /\ r.gte # a.end
         /\ "lt" \in r.dueKeys => b.kind = "range" /\ r.lt = b.start /\ r.lt # b.end
         /\ (a.kind = "range" /\ b.kind \in {"range", "skipped"}) => "gte" \in r.dueKeys
         /\ (b.kind = "range" /\ a.kind \in {"range", "skipped"}) => "lt" \in r.dueKeys
         /\ (a.kind = "range" /\ b.kind = "range" /\ a.start = b.start) =>
              r.dueKeys = {"gte", "lt"} /\ r.gte = r.lt

\* A query whose two tokens name one day: both bounds are that day's start.
C25_Witness ==
  \E p \in Procs :
    /\ ListSent(task[p])
    /\ task[p].block.dueAfter = Str(IsoDay) /\ task[p].block.dueBefore = Str(IsoDay)
    /\ task[p].issuesReq.dueKeys = {"gte", "lt"}
    /\ task[p].issuesReq.gte = task[p].issuesReq.lt
    /\ task[p].issuesReq.gte = LocalMidnight(10, task[p].env.tz)

\* ------------------------------------------------------------------ C26
\* The tokens that name a day: the three relative words in any letter case
\* and with blanks around them, a YYYY-MM-DD day of the calendar, and a string
\* of another form that the general parser accepts.
RelativeOffsets ==
  [w \in { <<"t", "o", "d", "a", "y">>, <<"t", "o", "m", "o", "r", "r", "o", "w">>,
           <<"y", "e", "s", "t", "e", "r", "d", "a", "y">> } |->
     IF w[2] = "e" THEN -1 ELSE IF Len(w) = 5 THEN 0 ELSE 1]

IsCalendarDay(date) ==
  /\ FourDigits(date, 1) = CalendarYear
  /\ TwoDigits(date, 6) \in 1..12
  /\ TwoDigits(date, 9) \in 1..DaysInMonth[TwoDigits(date, 6)]

Parseable(token, env) ==
  LET n == toLowerCase(trim(token))
  IN \/ n \in DOMAIN RelativeOffsets
     \/ IsIsoDate(n) /\ IsCalendarDay(n)
     \/ ~IsIsoDate(n) /\ DateOf(token, env.tz) # NaN

\* C26: every parseable token resolves to a window that starts at local
\* midnight of a calendar day and ends one calendar day later, with tomorrow's
\* start one day after today's and yesterday's one day before it; an
\* unparseable token resolves to no window (null).
C26_TokensResolveToOneDayOrNothing ==
  \A p \in Procs :
    LET s == task[p]
        tz == s.env.tz
        todayStart == LocalMidnight(LocalDay(s.env.clock, tz), tz)
        Resolved(v, r) ==
          r.kind # "skipped" =>
            IF Parseable(v.chars, s.env)
              THEN /\ r.kind = "range"
                   /\ r.start = LocalMidnight(LocalDay(r.start, tz), tz)
                   /\ r.end = LocalMidnight(LocalDay(r.start, tz) + 1, tz)
                   /\ toLowerCase(trim(v.chars)) \in DOMAIN RelativeOffsets =>
                        r.start = todayStart
                                  + RelativeOffsets[toLowerCase(trim(v.chars))] * HoursPerDay
              ELSE r.kind = "null"
    IN s.op = "process" =>
         /\ Resolved(s.block.dueAfter, s.ranges.after)
         /\ Resolved(s.block.dueBefore, s.ranges.before)

\* ------------------------------------------------------------------ C27
Unparseable(v, env) == IsNonEmptyString(v) /\ ~Parseable(v.chars, env)
Resolvable(v, env) == IsNonEmptyString(v) /\ Parseable(v.chars, env)

\* C27: an unparseable dueAfter or dueBefore token never aborts the query.
\* The list query of the block is sent; the unparseable token gives no bound,
\* a parseable sibling still gives its bound, and with both unparseable the
\* request has no due-date clause.
C27_UnparseableTokenOnlyDropsItsBound ==
  \A p \in Procs :
    LET s == task[p]
        b == s.block
        r == s.issuesReq
    IN (s.op = "process" /\ s.mode = "list" /\ apiKey
        /\ (Unparseable(b.dueAfter, s.env) \/ Unparseable(b.dueBefore, s.env))) =>
         /\ r.sent
         /\ Unparseable(b.dueAfter, s.env) => "gte" \notin r.dueKeys
         /\ Unparseable(b.dueBefore, s.env) => "lt" \notin r.dueKeys
         /\ Resolvable(b.dueAfter, s.env) => "gte" \in r.dueKeys
         /\ Resolvable(b.dueBefore, s.env) => "lt" \in r.dueKeys
         /\ (Unparseable(b.dueAfter, s.env) /\ Unparseable(b.dueBefore, s.env)) =>
              "dueDate" \notin r.keys

\* ------------------------------------------------------------------ C28
\* What the user is shown with the result of a block: the notices raised and
\* the texts rendered into the block, and what debug mode writes to the console.
Shown(s) ==
  {s.notices[i].prefix : i \in 1..Len(s.notices)} \cup
  {s.rendered[i].text : i \in 1..Len(s.rendered)} \cup
  {s.console[i] : i \in 1..Len(s.console)}

NotFoundTexts == {"Team \"", "Status \"", "No Linear issue found for ID: "}

\* C28: whenever a date token of a block fails to parse, the finished block
\* shows the user a diagnostic for that failure, and that diagnostic is none
\* of the not-found diagnostics.
C28_DateFailureIsShown ==
  \A p \in Procs :
    LET s == task[p]
    IN (s.op = "process" /\ s.mode = "list" /\ s.pc = "done") =>
         /\ Unparseable(s.block.dueAfter, s.env) => FailedAfter \in Shown(s)
         /\ Unparseable(s.block.dueBefore, s.env) => FailedBefore \in Shown(s)
         /\ {FailedAfter, FailedBefore} \cap NotFoundTexts = {}

\* ------------------------------------------------------------------ C29
IsStringValue(v) == v.type = "string"
IsIdEntry(e) == e.kind \in {"issue", "notFound"}

\* The string IDs of the block's ids list, in list order.
StringIds(s) ==
  LET strings == SelectSeq(s.block.ids, IsStringValue)
  IN [i \in 1..Len(strings) |-> strings[i].chars]

\* The rendered issues and not-found entries, in document order.
IdEntries(s) == SelectSeq(s.rendered, IsIdEntry)

IsPrefix(a, b) == Len(a) <= Len(b) /\ \A i \in 1..Len(a) : a[i] = b[i]

\* C29: a block with an ids list fetches its issues one at a time, in list
\* order: the IDs requested so far and the IDs of the entries rendered so far
\* (an issue or a not-found entry each) are prefixes of the list's string IDs,
\* and an ID is requested only when every ID before it has its entry.  Every
\* fetch that fails or finds nothing gives a not-found entry, and the finished
\* block has an entry for every string ID, whatever failed on the way.
C29_IdsInOrderPastFailures ==
  \A p \in Procs :
    LET s == task[p]
        ids == StringIds(s)
        entries == IdEntries(s)
        missing == SelectSeq(entries, LAMBDA e : e.kind = "notFound")
    IN (s.op = "process" /\ s.mode = "ids") =>
         /\ IsPrefix([i \in 1..Len(entries) |-> entries[i].id], ids)
         /\ IsPrefix(s.issueReqs, ids)
         /\ apiKey => Len(s.issueReqs) =
                        Len(entries) + (IF s.pc = "awaitIssueById" THEN 1 ELSE 0)
         /\ ~apiKey => s.issueReqs = <<>>
         /\ [i \in 1..Len(missing) |-> missing[i].id]
              = [i \in 1..Len(s.notices) |-> s.notices[i].name]
         /\ s.pc = "done" => Len(entries) = Len(ids)

\* A finished block of three string IDs: the first fetch failed, the second
\* found its issue, the third found nothing.
C29_Witness ==
  \E p \in Procs :
    LET s == task[p]
        entries == IdEntries(s)
    IN /\ s.op = "process" /\ s.mode = "ids" /\ s.pc = "done"
       /\ Len(entries) = 3
       /\ entries[1].kind = "notFound" /\ s.notices[1] = FailedIssueNotice(entries[1].id)
       /\ entries[2].kind = "issue"
       /\ entries[3].kind = "notFound" /\ s.notices[2] = NoIssueNotice(entries[3].id)
       /\ Len(s.issueReqs) = 3

\* ------------------------------------------------------------------ C30
\* A getIssues call naming a team begins, and a team listing is answered.
BeginsLookup(p) ==
  /\ task[p].pc \in {"idle", "done"} /\ task'[p] # task[p]
  /\ task'[p].options.teamName # <<>> /\ apiKey

ListingAnswered(p) == task[p].pc = "awaitTeams" /\ task'[p].pc # "awaitTeams"

HitSendsNothing ==
  \A p \in Procs :
    LET key == toLowerCase(task'[p].options.teamName)
    IN (BeginsLookup(p) /\ key \in DOMAIN teamCache) =>
         /\ "teams" \notin Kinds(task'[p])
         /\ task'[p].teamId = teamCache[key]
         /\ teamCache' = teamCache

\* C30: the team index only grows.  No step removes a key or changes the ID
\* stored under a key, and a lookup that hits the index sends no team-listing
\* request.
C30_EntriesNeverChange ==
  [][/\ \A k \in DOMAIN teamCache :
          k \in DOMAIN teamCache' /\ teamCache'[k] = teamCache[k]
     /\ HitSendsNothing]_vars

\* C30 amended: no step removes a key, and a lookup that hits the index sends
\* no team-listing request and changes nothing.  The ID under a key changes
\* only when a lookup of that name which began before the key was inserted
\* gets its listing: it then stores the ID its own listing gives the name.
C30_KeysStayAndOnlyLateMissesRewrite ==
  [][/\ \A k \in DOMAIN teamCache :
          /\ k \in DOMAIN teamCache'
          /\ teamCache'[k] # teamCache[k] =>
               \E p \in Procs :
                 /\ ListingAnswered(p)
                 /\ toLowerCase(task[p].options.teamName) = k
                 /\ k \notin task[p].indexAtStart
                 /\ teamCache'[k] = task'[p].teamId
     /\ HitSendsNothing]_vars

\* Two overlapping lookups of one name were answered with different listings:
\* the index holds the ID the later answer gave, and a third lookup that hit
\* the index used it without a request.
C30_Witness ==
  \E p, q \in Procs :
    /\ p # q
    /\ toLowerCase(task[p].options.teamName) = <<"a", "b">>
    /\ toLowerCase(task[q].options.teamName) = <<"a", "b">>
    /\ task[p].teamOutcome = "found" /\ task[q].teamOutcome = "found"
    /\ task[p].teamId = "T1" /\ task[q].teamId = "T2"
    /\ task[p].indexAtStart = {} /\ task[q].indexAtStart = {}
    /\ teamCache[<<"a", "b">>] = "T2"

\* ------------------------------------------------------------------ C31
LastKind(s) == s.reqs[Len(s.reqs)].kind

\* C31: no remote call of a getIssues invocation is retried.  The team listing
\* and the issue listing are requested at most once each, no two page requests
\* of the invocation carry the same cursor, and the request that failed is the
\* last request the invocation sent: a failed team listing, page request or
\* issue listing ends the invocation with nothing sent after it.
C31_NoAutomaticRetry ==
  \A p \in Procs : task[p].op = "getIssues" =>
    LET s == task[p]
        r == PageReqs(s)
    IN /\ CountOf(s, "teams") <= 1
       /\ CountOf(s, "issues") <= 1
       /\ \A i, j \in 1..Len(r) : i # j => r[i].after # r[j].after
       /\ Len(r) <= Len(s.served) + 1
       /\ \A what \in {"teams", "page", "issues"} :
            what \in s.failed =>
              /\ s.pc = "done"
              /\ LastKind(s) = what
              /\ what = "page" => Len(r) = Len(s.served) + 1

\* One invocation was served the first page and failed on the second; another
\* resolved its team and failed on the issue listing.
C31_Witness ==
  \E p, q \in Procs :
    /\ task[p].op = "getIssues" /\ task[p].failed = {"page"}
    /\ Len(task[p].served) = 1 /\ Len(PageReqs(task[p])) = 2
    /\ task[q].op = "getIssues" /\ task[q].failed = {"issues"}
    /\ CountOf(task[q], "teams") = 1 /\ CountOf(task[q], "issues") = 1

\* ------------------------------------------------------------------ C32
\* The cache entry was written after caller p, whose fetch is still in flight,
\* entered getWorkflowStates on an empty or stale cache: another fetch that
\* overlaps p's has completed.
RacedBy(p) ==
  /\ task[p].pc = "awaitPage"
  /\ ~workflowStatesCache.isNull
  /\ task[p].ageAtStart = NoAge \/ CacheAge < task[p].ageAtStart

\* C32: overlapping fetches race and the last writer wins.  When a fetch
\* completes after an overlapping fetch has written the cache, the entry
\* becomes exactly the pages served to the completing fetch, stamped with the
\* completion time; that caller receives exactly the pages served to it; and
\* what any other caller received stays as it was.
C32_LastWriterWins ==
  [][\A p \in Procs :
       (Completes(p) /\ RacedBy(p)) =>
         /\ workflowStatesCache' =
              [isNull |-> FALSE, timestamp |-> now,
               states |-> Flatten(task'[p].served)]
         /\ task'[p].wsValue = Flatten(task'[p].served)
         /\ \A q \in Procs \ {p} :
              /\ task'[q].wsValue = task[q].wsValue
              /\ task'[q].wsOutcome = task[q].wsOutcome]_vars

\* Two fetches that both began on the empty cache have completed with
\* different results (the states changed in between); the cache holds the
\* result of one of them, the other caller kept its own.
C32_Witness ==
  \E p, q \in Procs :
    /\ p # q
    /\ task[p].ageAtStart = NoAge /\ task[q].ageAtStart = NoAge
    /\ task[p].wsOutcome = "returned" /\ task[p].served # <<>>
    /\ task[q].wsOutcome = "returned" /\ task[q].served # <<>>
    /\ Len(task[p].wsValue) = 4 /\ Len(task[q].wsValue) = 2
    /\ workflowStatesCache.states = task[q].wsValue

\* ------------------------------------------------------------------ C33
\* C33: the cache entry is absent or the complete result of one fetch.  The
\* entry changes only in the step that ends a fetch successfully, and it then
\* holds the concatenation of all pages served to that fetch, from its
\* cursorless first request to the page that reported hasNextPage = false:
\* whole pages in the remote's order, each once.
C33_CacheHoldsOneWholeFetch ==
  [][workflowStatesCache' # workflowStatesCache =>
       /\ ~workflowStatesCache'.isNull
       /\ \E k \in 1..MaxPages : workflowStatesCache'.states = FirstPages(k)
       /\ \E p \in Procs :
            LET sv == task'[p].served
            IN /\ task[p].pc = "awaitPage" /\ task'[p].wsOutcome = "returned"
               /\ workflowStatesCache'.states = Flatten(sv)
               /\ Len(PageReqs(task'[p])) = Len(sv)
               /\ \A i \in 1..Len(sv) : sv[i].hasNextPage <=> i < Len(sv)]_vars

\* A two-page fetch is in flight with its first page served while the cache
\* holds the whole result of another fetch.
C33_Witness ==
  \E p, q \in Procs :
    /\ p # q
    /\ task[p].pc = "awaitPage" /\ Len(task[p].served) = 1
    /\ task[q].wsOutcome = "returned" /\ Len(task[q].served) = 2
    /\ workflowStatesCache.states = Flatten(task[q].served)
    /\ Len(workflowStatesCache.states) = 4

\* ------------------------------------------------------------------ C34
\* C34: the team index and the workflow-state cache belong to one instance.
\* A step of a method of one instance, whether it stores a fetched result or
\* fails, leaves the index and the cache of every other instance as they
\* were; and a call reads only its own instance: on an instance whose index
\* lacks the name it requests the team listing, and on one whose cache is
\* empty it requests the first page, whatever other instances hold.
C34_CachesBelongToOneInstance ==
  [][/\ \A i \in Instances \ {this} : services'[i] = services[i]
     /\ \A p \in Procs :
          /\ (BeginsLookup(p) /\ toLowerCase(task'[p].options.teamName)
                                   \notin DOMAIN services[this].teamCache) =>
               task'[p].pc = "awaitTeams"
          /\ (Enters(p) /\ apiKey /\ services[this].workflowStatesCache.isNull) =>
               /\ task'[p].pc = "awaitPage"
               /\ task'[p].ageAtStart = NoAge]_vars

\* Instance 1 holds a team entry and the fetched states; the call on instance 2
\* requested the team listing itself, stored its own entry, and its state fetch
\* failed: the cache of instance 2 is empty and that of instance 1 untouched.
C34_Witness ==
  \E p, q \in Procs :
    /\ Home(p) = 1 /\ Home(q) = 2
    /\ task[p].pc = "done" /\ task[p].teamOutcome = "found"
    /\ task[p].wsOutcome = "returned"
    /\ task[q].teamOutcome = "found" /\ "teams" \in Kinds(task[q])
    /\ "page" \in task[q].failed
    /\ services[1].workflowStatesCache.states = task[p].wsValue
    /\ ~services[1].workflowStatesCache.isNull
    /\ services[2].workflowStatesCache.isNull
    /\ DOMAIN services[1].teamCache = { <<"a", "b">> }
    /\ DOMAIN services[2].teamCache = { <<"a", "b">> }

\* ------------------------------------------------------------------ C35
\* C35: every getWorkflowStates call that has begun eventually ends, with the
\* state sequence or with an error, when every page request is eventually
\* answered and the remote serves the page after each cursor it gave out,
\* ending with a page that has no next page.
C35_FetchEnds ==
  \A p \in Procs :
    (task[p].wsOutcome = "pending") ~> (task[p].wsOutcome \in {"returned", "threw"})

\* One fetch ended with the states of two pages, another with an error after
\* its first page.
C35_Witness ==
  \E p, q \in Procs :
    /\ task[p].wsOutcome = "returned" /\ Len(task[p].served) = 2
    /\ Len(PageReqs(task[p])) = 2
    /\ task[q].wsOutcome = "threw" /\ Len(task[q].served) = 1

\* ------------------------------------------------------------------ C36
\* The issue-listing request of the invocation was sent and answered with a
\* listing.
ListingSucceeded(s) ==
  /\ "issues" \in Kinds(s)
  /\ s.pc # "awaitIssues"
  /\ "issues" \notin s.failed

\* C36: once the issue listing of a getIssues invocation has succeeded, the
\* invocation returns exactly the listed issues, sorted if requested, and shows
\* no failure notice: the assignee lookups of the logging loop cannot turn the
\* result into an empty sequence or an error diagnostic.
C36_ListingSuccessIsReturned ==
  \A p \in Procs :
    (task[p].op = "getIssues" /\ ListingSucceeded(task[p]) /\ task[p].pc = "done") =>
      /\ task[p].outcome = "returned"
      /\ task[p].issuesOut = SortIssues(task[p].listed, task[p].options.sorting)
      /\ \A i \in 1..Len(task[p].notices) : task[p].notices[i] # FailedNotice

\* ------------------------------------------------------------------ C37
\* Caller p begins an invocation in this step.
Begins(p) ==
  task[p].pc \in {"idle", "done"} /\ calls' = calls + 1 /\ task'[p] # task[p]

\* C37: an operation invoked while no API key is configured sends no remote
\* request and changes neither the team index nor the workflow-state cache:
\* getIssues returns the empty sequence with the failure notice, getIssueById
\* returns absent, getTeams and getWorkflowStates raise an error.
C37_NoKeyNoRequest ==
  [][\A p \in Procs :
       /\ (~apiKey /\ Begins(p)) =>
            /\ task'[p].reqs = <<>>
            /\ services' = services
            /\ task'[p].op = "getIssues" =>
                 /\ task'[p].pc = "done" /\ task'[p].outcome = "returned"
                 /\ task'[p].issuesOut = <<>>
                 /\ task'[p].notices = <<FailedNotice>>
            /\ task'[p].op = "getTeams" =>
                 task'[p].pc = "done" /\ task'[p].outcome = "threw"
            /\ task'[p].op = "getWorkflowStates" =>
                 task'[p].pc = "done" /\ task'[p].wsOutcome = "threw"
            /\ task'[p].op = "process" =>
                 task'[p].pc = "awaitIssueById" /\ ~task'[p].hasClient
       /\ (task[p].pc = "awaitIssueById" /\ ~task[p].hasClient /\ task'[p] # task[p]) =>
            /\ task'[p].reqs = task[p].reqs
            /\ services' = services
            /\ ~task'[p].found
            /\ task'[p].notices = Append(task[p].notices, FailedIssueNotice(CurrentId(task[p])))
  ]_vars

\* ------------------------------------------------------------------ C38
\* C38: a process invocation uses one fetch mode by fixed precedence.  A
\* non-empty ids list leads only to by-ID fetches; otherwise a string id or
\* issueId leads to exactly one by-ID fetch; otherwise one list query is made.
\* The list query is never sent when ids or id is present, and at the end the
\* loading placeholder has been replaced.
C38_OneFetchModeByPrecedence ==
  \A p \in Procs :
    LET s == task[p]
        b == s.block
        hasIds == b.ids # <<>>
        hasId == IsNonEmptyString(b.id) \/ IsNonEmptyString(b.issueId)
    IN (s.op = "process" /\ b.isObject) =>
         /\ hasIds => s.mode = "ids" /\ Kinds(s) \subseteq {"issue", "issueState"}
         /\ (~hasIds /\ hasId) =>
              /\ s.mode = "id"
              /\ Kinds(s) \subseteq {"issue", "issueState"}
              /\ Len(s.issueReqs) = IF s.hasClient THEN 1 ELSE 0
         /\ (~hasIds /\ ~hasId) =>
              /\ s.mode = "list" /\ s.issueReqs = <<>>
              /\ Len(SelectSeq(s.reqs, LAMBDA r : r.kind = "issues")) <= 1
         /\ (hasIds \/ b.id.type # "absent") => "issues" \notin Kinds(s)
         /\ s.pc = "done" =>
              s.rendered # <<>> /\ \A i \in 1..Len(s.rendered) : s.rendered[i] # Loading

\* ------------------------------------------------------------------ C39
\* C39: after loadSettings and after any sequence of add, rename and delete
\* actions in the settings tab, defaultIntegration is the name of an
\* integration of the list.
C39_DefaultNamesAnIntegration ==
  defaultIntegration \in NamesOf(integrations)

\* ------------------------------------------------------------------ C40
\* The names of the list are non-empty and pairwise distinct.
NamesValid(list) ==
  /\ \A i \in 1..Len(list) : list[i].name # <<>>
  /\ \A i, j \in 1..Len(list) : list[i].name = list[j].name => i = j

\* C40: from a list of non-empty, pairwise distinct names every handler of the
\* settings tab leaves such a list: add appends a name no integration had, and
\* a rename to an empty or already-used name (after trimming) shows a notice
\* and leaves the list unchanged.
C40_NamesStayDistinct ==
  [][NamesValid(integrations) =>
       /\ NamesValid(integrations')
       /\ AddIntegration =>
            /\ Len(integrations') = Len(integrations) + 1
            /\ SubSeq(integrations', 1, Len(integrations)) = integrations
            /\ integrations'[Len(integrations')].name \notin NamesOf(integrations)
       /\ \A index \in 1..Len(integrations), typed \in TypedNames :
            (/\ RenameIntegration(index, typed)
             /\ \/ trim(typed) = <<>>
                \/ \E j \in 1..Len(integrations) :
                     j # index /\ integrations[j].name = trim(typed)) =>
              /\ integrations' = integrations
              /\ tabNotice' \in {EmptyNameNotice, UniqueNameNotice}
  ]_vars

\* Two integrations, one renamed and one added as the second of its kind,
\* after a rename to a name in use was turned down.
C40_Witness ==
  /\ Len(integrations) = MaxIntegrations
  /\ NamesValid(integrations)
  /\ {<<"w">>, IntegrationName(2)} \subseteq NamesOf(integrations)
  /\ tabNotice = UniqueNameNotice

====
